---- MODULE Spec2Model ----
(***************************************************************************)
(* Roadside-assistance application (zainnaqvi967/rsa-app).                 *)
(*                                                                         *)
(* Two services live in the repository:                                    *)
(*   - the Marketplace  (src/backend): customers post service requests,    *)
(*     providers bid with offers, the customer accepts one offer and a     *)
(*     job is created;                                                     *)
(*   - the Simple Service (src/app): customers post requests, a provider   *)
(*     accepts a request and then updates its status.                      *)
(*                                                                         *)
(* The persisted state of each service is one record (db / sdb) holding    *)
(* one sequence per table; a row's primary key is its position in the      *)
(* sequence (autoincrement ids, no handler deletes a row).                 *)
(***************************************************************************)
EXTENDS Integers, Sequences, FiniteSets, TLC

\* ------------------------------------------------------------------ bounds
\* Rows the sequential Marketplace specifications may create.
MaxRequests == 2
MaxOffers == 3
\* Rows the interleaved Marketplace specification may create.
ConcMaxRequests == 1
ConcMaxOffers == 2
\* Requests the Simple Service specifications may create.
SimpleMaxRequests == 2
\* Accounts the Simple Service account specification may create.
AuthMaxUsers == 2
\* Rows per table the token specification may create.
GateMaxRows == 1
\* Users the Marketplace sign-in specification may create.
OtpMaxUsers == 2
\* Users the store of the interleaved sign-in specification may hold.
OtpConcMaxUsers == 3
\* Sessions get_db may create in the session specification.
MaxSessions == 3
\* Requests, and offers, the nearby-requests specification may create.
NearbyMaxRequests == 2
\* Tokens the role specification may issue; it may create one request less.
RoleMaxTokens == 2
\* Requests, and offers, per service in the ownership specification.
OwnMaxRequests == 1
\* Requests, and offers, the profile specification may create.
ProfMaxRows == 1
\* Requests of the Simple Service whose status updates are recorded.
StatusMaxRequests == 1
\* Requests of the Marketplace whose job status updates are recorded.
JobMaxRequests == 1
\* Offers that interleaved create_offer handlers may have inserted or begun.
OfferConcMaxOffers == 2
\* Requests of the Simple Service that the list endpoints read.
ListMaxRequests == 1
\* Requests the coordinate specification may create.
CoordMaxRequests == 1
\* Requests of the Simple Service that the statistics count.
StatsMaxRequests == 2

\* --------------------------------------------------------- enumerations
\* src/backend/models/user.py: UserRole
CUSTOMER == "customer"
PROVIDER == "provider"
ADMIN == "admin"
UserRole == {CUSTOMER, PROVIDER, ADMIN}

\* src/backend/models/service_request.py: RequestStatus
PENDING_OFFERS == "pending_offers"
OFFER_SELECTED == "offer_selected"
RequestStatus == {PENDING_OFFERS, OFFER_SELECTED, "cancelled", "expired"}

\* src/backend/models/offer.py: OfferStatus
PENDING == "pending"
ACCEPTED == "accepted"
REJECTED == "rejected"
OfferStatus == {PENDING, ACCEPTED, REJECTED}

\* src/backend/models/job.py: JobStatus
ASSIGNED == "assigned"
JobStatus == {ASSIGNED, "on_the_way", "arrived", "in_progress", "completed", "cancelled"}

\* A status string that is not a member of JobStatus (JobStatusUpdate.status
\* is a plain string, parsed by the handler).
BogusStatus == "bogus"

\* The statuses a provider submits in the specifications below.
JobStatusInputs == {"completed", BogusStatus}

\* A nullable foreign key that is NULL (primary keys start at 1).
Null == 0

VARIABLES
    db,     \* the Marketplace database
    sdb,    \* the Simple Service database
    resp,   \* the response to the last request handled start to finish
    hnd,    \* the request each worker thread is in the middle of
    sessions, \* every database session get_db has created, in creation order
    tokens  \* the Simple Service tokens issued so far, which clients hold

vars == <<db, sdb, resp, hnd, sessions, tokens>>

\* The two worker threads whose handlers interleave.
Handlers == {1, 2}

\* ------------------------------------------------------------ Marketplace
\* Users of a Marketplace deployment: rows of the users table with their
\* stored role.  No Marketplace handler changes a role, and the operations
\* modelled here are the customer's and the provider's: the deployment has
\* two providers and one customer, or two of each.
SeedUsers ==
    << [role |-> PROVIDER], [role |-> PROVIDER], [role |-> CUSTOMER] >>

SeedUsersTwoCustomers ==
    << [role |-> PROVIDER], [role |-> PROVIDER],
       [role |-> CUSTOMER], [role |-> CUSTOMER] >>

InitDb ==
    [users |-> SeedUsers, requests |-> << >>, offers |-> << >>, jobs |-> << >>,
     profiles |-> << >>]

InitDbTwoCustomers == [InitDb EXCEPT !.users = SeedUsersTwoCustomers]

Idle == [pc |-> "idle", user |-> 0, oid |-> 0, rid |-> 0, others |-> {}, code |-> 0]

NoResp == [op |-> "none", code |-> 0, user |-> 0, arg |-> 0, detail |-> ""]

Result(d, c, det) == [db |-> d, code |-> c, detail |-> det]

\* deps.py get_current_customer / get_current_provider / get_current_admin:
\* 403 unless the resolved user's stored role is the required one.
RoleGate(d, u, role) == IF d.users[u].role # role THEN 403 ELSE 200

\* customer.py create_service_request
create_service_request(d, u) ==
    IF RoleGate(d, u, CUSTOMER) # 200 THEN Result(d, 403, "role")
    ELSE Result([d EXCEPT !.requests =
                    Append(@, [customer_id |-> u, status |-> PENDING_OFFERS])],
                201, "")

\* (variant) the request lookup without the status check
CreateOfferCheckRequestNoStatus(d, u, rid) ==
    IF RoleGate(d, u, PROVIDER) # 200 THEN Result(d, 403, "role")
    ELSE IF rid \notin DOMAIN d.requests THEN Result(d, 404, "request_missing")
    ELSE Result(d, 200, "")

\* provider.py create_offer, the request lookup and status check
CreateOfferCheckRequest(d, u, rid) ==
    IF RoleGate(d, u, PROVIDER) # 200 THEN Result(d, 403, "role")
    ELSE IF rid \notin DOMAIN d.requests THEN Result(d, 404, "request_missing")
    ELSE IF d.requests[rid].status # PENDING_OFFERS
         THEN Result(d, 400, "request_not_pending_offers")
    ELSE Result(d, 200, "")

\* (variant) the existing-offer query filtering on the accepted status
ExistingOfferAccepted(d, u, rid) ==
    \E i \in DOMAIN d.offers :
        /\ d.offers[i].service_request_id = rid
        /\ d.offers[i].provider_id = u
        /\ d.offers[i].status = ACCEPTED

\* provider.py create_offer, the existing-offer query
ExistingOffer(d, u, rid) ==
    \E i \in DOMAIN d.offers :
        /\ d.offers[i].service_request_id = rid
        /\ d.offers[i].provider_id = u
        /\ d.offers[i].status = PENDING

\* provider.py create_offer, the insert and commit
CreateOfferCommit(d, u, rid) ==
    Result([d EXCEPT !.offers =
               Append(@, [service_request_id |-> rid, provider_id |-> u,
                          status |-> PENDING])],
           201, "")

create_offer(d, u, rid) ==
    LET chk == CreateOfferCheckRequest(d, u, rid) IN
    IF chk.code # 200 THEN chk
    ELSE IF ExistingOffer(d, u, rid) THEN Result(d, 400, "already_pending_offer")
    ELSE CreateOfferCommit(d, u, rid)

\* (variant) the lookup and the ownership check, without the two status checks
AcceptOfferChecksNoStatus(d, u, oid) ==
    IF RoleGate(d, u, CUSTOMER) # 200 THEN Result(d, 403, "role")
    ELSE IF oid \notin DOMAIN d.offers THEN Result(d, 404, "offer_missing")
    ELSE IF d.requests[d.offers[oid].service_request_id].customer_id # u
         THEN Result(d, 403, "not_owner")
    ELSE Result(d, 200, "")

\* (variant) accept_offer checking the statuses before the ownership
AcceptOfferChecksStatusFirst(d, u, oid) ==
    IF RoleGate(d, u, CUSTOMER) # 200 THEN Result(d, 403, "role")
    ELSE IF oid \notin DOMAIN d.offers THEN Result(d, 404, "offer_missing")
    ELSE LET offer == d.offers[oid]
             service_request == d.requests[offer.service_request_id] IN
         IF offer.status # PENDING THEN Result(d, 400, "offer_not_pending")
         ELSE IF service_request.status # PENDING_OFFERS
              THEN Result(d, 400, "request_not_pending_offers")
         ELSE IF service_request.customer_id # u THEN Result(d, 403, "not_owner")
         ELSE Result(d, 200, "")

\* customer.py accept_offer, the lookup and the four checks
AcceptOfferChecks(d, u, oid) ==
    IF RoleGate(d, u, CUSTOMER) # 200 THEN Result(d, 403, "role")
    ELSE IF oid \notin DOMAIN d.offers THEN Result(d, 404, "offer_missing")
    ELSE LET offer == d.offers[oid]
             service_request == d.requests[offer.service_request_id] IN
         IF service_request.customer_id # u THEN Result(d, 403, "not_owner")
         ELSE IF offer.status # PENDING THEN Result(d, 400, "offer_not_pending")
         ELSE IF service_request.status # PENDING_OFFERS
              THEN Result(d, 400, "request_not_pending_offers")
         ELSE Result(d, 200, "")

\* (variant) the other_offers query without the service_request_id filter
OtherOffersAnyRequest(d, rid, oid) ==
    {i \in DOMAIN d.offers : i # oid /\ d.offers[i].status = PENDING}

\* customer.py accept_offer, the other_offers query
OtherOffers(d, rid, oid) ==
    {i \in DOMAIN d.offers :
        /\ d.offers[i].service_request_id = rid
        /\ i # oid
        /\ d.offers[i].status = PENDING}

\* (variant) the jobs table without its two unique constraints
JobUniqueViolationNever(d, rid, oid) == FALSE

\* models/job.py: jobs.service_request_id and jobs.offer_id are UNIQUE
JobUniqueViolation(d, rid, oid) ==
    \E j \in DOMAIN d.jobs :
        d.jobs[j].service_request_id = rid \/ d.jobs[j].offer_id = oid

\* (variant) the commit that leaves the chosen offer pending
AcceptOfferCommitKeepsOffer(d, rid, oid, others) ==
    IF JobUniqueViolation(d, rid, oid) THEN Result(d, 500, "integrity_error")
    ELSE Result(
        [d EXCEPT
           !.offers = [i \in DOMAIN @ |->
                          IF i \in others THEN [@[i] EXCEPT !.status = REJECTED]
                          ELSE @[i]],
           !.requests[rid].status = OFFER_SELECTED,
           !.jobs = Append(@, [service_request_id |-> rid, offer_id |-> oid,
                               status |-> ASSIGNED])],
        200, "")

\* (variant) the commit without the request status update
AcceptOfferCommitKeepsRequest(d, rid, oid, others) ==
    IF JobUniqueViolation(d, rid, oid) THEN Result(d, 500, "integrity_error")
    ELSE Result(
        [d EXCEPT
           !.offers = [i \in DOMAIN @ |->
                          IF i = oid THEN [@[i] EXCEPT !.status = ACCEPTED]
                          ELSE IF i \in others THEN [@[i] EXCEPT !.status = REJECTED]
                          ELSE @[i]],
           !.jobs = Append(@, [service_request_id |-> rid, offer_id |-> oid,
                               status |-> ASSIGNED])],
        200, "")

\* customer.py accept_offer, the writes flushed by db.commit(): the chosen
\* offer, the other offers found by the query, the request and the new job.
\* A violated unique constraint raises IntegrityError: the transaction is
\* rolled back and the request ends with a 500.
AcceptOfferCommit(d, rid, oid, others) ==
    IF JobUniqueViolation(d, rid, oid) THEN Result(d, 500, "integrity_error")
    ELSE Result(
        [d EXCEPT
           !.offers = [i \in DOMAIN @ |->
                          IF i = oid THEN [@[i] EXCEPT !.status = ACCEPTED]
                          ELSE IF i \in others THEN [@[i] EXCEPT !.status = REJECTED]
                          ELSE @[i]],
           !.requests[rid].status = OFFER_SELECTED,
           !.jobs = Append(@, [service_request_id |-> rid, offer_id |-> oid,
                               status |-> ASSIGNED])],
        200, "")

accept_offer(d, u, oid) ==
    LET chk == AcceptOfferChecks(d, u, oid) IN
    IF chk.code # 200 THEN chk
    ELSE LET rid == d.offers[oid].service_request_id IN
         AcceptOfferCommit(d, rid, oid, OtherOffers(d, rid, oid))

\* (variant) the job status update that closes the request of a cancelled
\* job
UpdateJobStatusCancelsRequest(d, u, jid, s) ==
    IF RoleGate(d, u, PROVIDER) # 200 THEN Result(d, 403, "role")
    ELSE IF jid \notin DOMAIN d.jobs THEN Result(d, 404, "job_missing")
    ELSE IF d.offers[d.jobs[jid].offer_id].provider_id # u
         THEN Result(d, 403, "not_owner")
    ELSE IF s \notin JobStatus THEN Result(d, 400, "invalid_status")
    ELSE IF s = "cancelled"
         THEN Result([d EXCEPT !.jobs[jid].status = s,
                               !.requests[d.jobs[jid].service_request_id].status =
                                   "cancelled"],
                     200, "")
    ELSE Result([d EXCEPT !.jobs[jid].status = s], 200, "")

\* (variant) the job status update parsing the status before looking the
\* job up
UpdateJobStatusParsesFirst(d, u, jid, s) ==
    IF RoleGate(d, u, PROVIDER) # 200 THEN Result(d, 403, "role")
    ELSE IF s \notin JobStatus THEN Result(d, 400, "invalid_status")
    ELSE IF jid \notin DOMAIN d.jobs THEN Result(d, 404, "job_missing")
    ELSE IF d.offers[d.jobs[jid].offer_id].provider_id # u
         THEN Result(d, 403, "not_owner")
    ELSE Result([d EXCEPT !.jobs[jid].status = s], 200, "")

\* provider.py update_job_status
update_job_status(d, u, jid, s) ==
    IF RoleGate(d, u, PROVIDER) # 200 THEN Result(d, 403, "role")
    ELSE IF jid \notin DOMAIN d.jobs THEN Result(d, 404, "job_missing")
    ELSE IF d.offers[d.jobs[jid].offer_id].provider_id # u
         THEN Result(d, 403, "not_owner")
    ELSE IF s \notin JobStatus THEN Result(d, 400, "invalid_status")
    ELSE Result([d EXCEPT !.jobs[jid].status = s], 200, "")

Respond(op, u, arg, r) ==
    [op |-> op, code |-> r.code, user |-> u, arg |-> arg, detail |-> r.detail]

\* The response of a job status update together with the status the job
\* had when the call arrived (Null when there was no such job).
JobRespond(op, u, jid, s, r, d) ==
    [op |-> op, code |-> r.code, user |-> u, arg |-> jid, detail |-> r.detail,
     status |-> s,
     was |-> IF jid \in DOMAIN d.jobs THEN d.jobs[jid].status ELSE Null]

\* --------------------------------------------------------- Simple Service
\* src/app/models/service_request.py: RequestStatus (pending and accepted
\* are the strings the offer statuses above carry)
SimpleRequestStatus ==
    {PENDING, ACCEPTED, "on_the_way", "in_progress", "completed", "cancelled"}

\* Accounts of a Simple Service deployment.  register stores the role the
\* registrant asks for: one customer and two providers have registered.
SimpleUsers ==
    << [role |-> CUSTOMER], [role |-> PROVIDER], [role |-> PROVIDER] >>

SimpleInitDb == [users |-> SimpleUsers, requests |-> << >>]

\* (variant) a role gate that lets every resolved user through
SimpleRoleGateOpen(d, u, role) == 200

\* dependencies.py get_current_customer / get_current_provider
SimpleRoleGate(d, u, role) == IF d.users[u].role # role THEN 403 ELSE 200

\* requests.py create_service_request
simple_create_service_request(d, u) ==
    IF SimpleRoleGate(d, u, CUSTOMER) # 200 THEN Result(d, 403, "role")
    ELSE Result([d EXCEPT !.requests =
                    Append(@, [customer_id |-> u, provider_id |-> Null,
                               status |-> PENDING])],
                201, "")

\* app provider.py accept_request, the lookup and the two checks
AcceptRequestChecks(d, u, rid) ==
    IF SimpleRoleGate(d, u, PROVIDER) # 200 THEN Result(d, 403, "role")
    ELSE IF rid \notin DOMAIN d.requests THEN Result(d, 404, "request_missing")
    ELSE IF d.requests[rid].status # PENDING
         THEN Result(d, 400, "no_longer_available")
    ELSE IF d.requests[rid].provider_id # Null
         THEN Result(d, 400, "already_accepted")
    ELSE Result(d, 200, "")

\* (variant) the commit assigning the provider and leaving the status
AcceptRequestCommitKeepsStatus(d, u, rid) ==
    Result([d EXCEPT !.requests[rid].provider_id = u], 200, "")

\* (variant) the commit without the provider assignment
AcceptRequestCommitNoProvider(d, u, rid) ==
    Result([d EXCEPT !.requests[rid].status = ACCEPTED], 200, "")

\* app provider.py accept_request, the two assignments and db.commit(): one
\* UPDATE of both columns of the row loaded by the lookup
AcceptRequestCommit(d, u, rid) ==
    Result([d EXCEPT !.requests[rid].provider_id = u,
                     !.requests[rid].status = ACCEPTED],
           200, "")

accept_request(d, u, rid) ==
    LET chk == AcceptRequestChecks(d, u, rid) IN
    IF chk.code # 200 THEN chk ELSE AcceptRequestCommit(d, u, rid)

\* (variant) the status update checking the target before the owner
UpdateRequestStatusTargetFirst(d, u, rid, s) ==
    IF SimpleRoleGate(d, u, PROVIDER) # 200 THEN Result(d, 403, "role")
    ELSE IF rid \notin DOMAIN d.requests THEN Result(d, 404, "request_missing")
    ELSE IF s = PENDING THEN Result(d, 400, "back_to_pending")
    ELSE IF d.requests[rid].provider_id # u THEN Result(d, 403, "not_owner")
    ELSE Result([d EXCEPT !.requests[rid].status = s], 200, "")

\* (variant) the status update treating completed and cancelled as final
UpdateRequestStatusTerminal(d, u, rid, s) ==
    IF SimpleRoleGate(d, u, PROVIDER) # 200 THEN Result(d, 403, "role")
    ELSE IF rid \notin DOMAIN d.requests THEN Result(d, 404, "request_missing")
    ELSE IF d.requests[rid].provider_id # u THEN Result(d, 403, "not_owner")
    ELSE IF s = PENDING THEN Result(d, 400, "back_to_pending")
    ELSE IF d.requests[rid].status \in {"completed", "cancelled"}
         THEN Result(d, 400, "final")
    ELSE Result([d EXCEPT !.requests[rid].status = s], 200, "")

\* (variant) the status update without the ownership check
UpdateRequestStatusNoOwner(d, u, rid, s) ==
    IF SimpleRoleGate(d, u, PROVIDER) # 200 THEN Result(d, 403, "role")
    ELSE IF rid \notin DOMAIN d.requests THEN Result(d, 404, "request_missing")
    ELSE IF s = PENDING THEN Result(d, 400, "back_to_pending")
    ELSE Result([d EXCEPT !.requests[rid].status = s], 200, "")

\* (variant) the status update without the check on the target status
UpdateRequestStatusAnyTarget(d, u, rid, s) ==
    IF SimpleRoleGate(d, u, PROVIDER) # 200 THEN Result(d, 403, "role")
    ELSE IF rid \notin DOMAIN d.requests THEN Result(d, 404, "request_missing")
    ELSE IF d.requests[rid].provider_id # u THEN Result(d, 403, "not_owner")
    ELSE Result([d EXCEPT !.requests[rid].status = s], 200, "")

\* app provider.py update_request_status (the body's status is validated
\* against RequestStatus before the handler runs)
update_request_status(d, u, rid, s) ==
    IF SimpleRoleGate(d, u, PROVIDER) # 200 THEN Result(d, 403, "role")
    ELSE IF rid \notin DOMAIN d.requests THEN Result(d, 404, "request_missing")
    ELSE IF d.requests[rid].provider_id # u THEN Result(d, 403, "not_owner")
    ELSE IF s = PENDING THEN Result(d, 400, "back_to_pending")
    ELSE Result([d EXCEPT !.requests[rid].status = s], 200, "")

SimpleRespond(op, u, rid, s, r) ==
    [op |-> op, code |-> r.code, user |-> u, arg |-> rid, detail |-> r.detail,
     status |-> s]

\* The rows a list endpoint returns (their order is not modelled).
Rows(c, rows) == [code |-> c, rows |-> rows]

\* app provider.py get_open_requests
get_open_requests(d, u) ==
    IF SimpleRoleGate(d, u, PROVIDER) # 200 THEN Rows(403, {})
    ELSE Rows(200, {rid \in DOMAIN d.requests :
                       /\ d.requests[rid].status = PENDING
                       /\ d.requests[rid].provider_id = Null})

\* app provider.py get_my_jobs
get_my_jobs(d, u) ==
    IF SimpleRoleGate(d, u, PROVIDER) # 200 THEN Rows(403, {})
    ELSE Rows(200, {rid \in DOMAIN d.requests : d.requests[rid].provider_id = u})

\* The response of a status update together with the status the request had
\* when the call arrived (Null when there was no such request).
StatusRespond(op, u, rid, s, r, d) ==
    [op |-> op, code |-> r.code, user |-> u, arg |-> rid, detail |-> r.detail,
     status |-> s,
     was |-> IF rid \in DOMAIN d.requests THEN d.requests[rid].status ELSE Null]

\* ------------------------------------------------ Simple Service accounts
\* A user row carries the columns the account handlers read and write:
\* email (UNIQUE), password_hash and role.
\* The addresses submitted below; the first is the one setup_admin uses.
AdminEmail == "admin@rsa.com"
Emails == {AdminEmail, "a@x.com", "b@x.com"}

\* The passwords submitted below, and the one setup_admin uses.
AdminPassword == "admin123"
Passwords == {"secret1", "secret2"}

\* utils/security.py hash_password / verify_password: the stored hash is
\* salted, and verify_password accepts exactly the password it was made from
hash_password(p) == <<"bcrypt", p>>

verify_password(p, h) == h = hash_password(p)

\* core/config.py: settings.JWT_SECRET_KEY
JWT_SECRET_KEY == "simple-service-key"

\* utils/security.py create_access_token: the claims, the signing key and
\* whether the exp claim has passed when the token is presented
create_access_token(sub, role, key) ==
    [sub |-> sub, role |-> role, key |-> key, expired |-> FALSE]

\* utils/security.py create_token_for_user: the subject is str(user_id)
create_token_for_user(user_id, role) ==
    create_access_token(ToString(user_id), role, JWT_SECRET_KEY)

NoToken == [sub |-> "", role |-> "", key |-> "", expired |-> FALSE]

NoHeaders == << >>

BearerHeaders == << <<"WWW-Authenticate", "Bearer">> >>

AuthResult(d, c, det, hdr, tok) ==
    [db |-> d, code |-> c, detail |-> det, headers |-> hdr, token |-> tok]

UsersWithEmail(d, email) == {i \in DOMAIN d.users : d.users[i].email = email}

Admins(d) == {i \in DOMAIN d.users : d.users[i].role = ADMIN}

\* (variant) register without the lookup of the address
RegisterNoLookup(d, email, password, role) ==
    AuthResult(
        [d EXCEPT !.users = Append(@, [email |-> email,
                                       password_hash |-> hash_password(password),
                                       role |-> role])],
        201, "", NoHeaders, create_token_for_user(Len(d.users) + 1, role))

\* auth.py register
register(d, email, password, role) ==
    IF UsersWithEmail(d, email) # {}
    THEN AuthResult(d, 400, "Email already registered", NoHeaders, NoToken)
    ELSE AuthResult(
        [d EXCEPT !.users = Append(@, [email |-> email,
                                       password_hash |-> hash_password(password),
                                       role |-> role])],
        201, "", NoHeaders, create_token_for_user(Len(d.users) + 1, role))

\* (variant) login telling an unknown address from a wrong password
LoginTellsUnknown(d, email, password) ==
    IF UsersWithEmail(d, email) = {}
    THEN AuthResult(d, 401, "Email not registered", BearerHeaders, NoToken)
    ELSE LET i == CHOOSE i \in UsersWithEmail(d, email) : TRUE IN
         IF ~verify_password(password, d.users[i].password_hash)
         THEN AuthResult(d, 401, "Invalid email or password", BearerHeaders, NoToken)
         ELSE AuthResult(d, 200, "", NoHeaders,
                         create_token_for_user(i, d.users[i].role))

\* auth.py login
login(d, email, password) ==
    IF UsersWithEmail(d, email) = {}
    THEN AuthResult(d, 401, "Invalid email or password", BearerHeaders, NoToken)
    ELSE LET i == CHOOSE i \in UsersWithEmail(d, email) : TRUE IN
         IF ~verify_password(password, d.users[i].password_hash)
         THEN AuthResult(d, 401, "Invalid email or password", BearerHeaders, NoToken)
         ELSE AuthResult(d, 200, "", NoHeaders,
                         create_token_for_user(i, d.users[i].role))

\* admin.py setup_admin.  The handler looks for an admin, not for the
\* address: when admin@rsa.com is taken the INSERT violates the UNIQUE
\* constraint on users.email, the commit raises IntegrityError and the
\* request ends with a 500 and nothing written.
setup_admin(d) ==
    IF Admins(d) # {}
    THEN AuthResult(d, 400, "Admin user already exists", NoHeaders, NoToken)
    ELSE IF UsersWithEmail(d, AdminEmail) # {}
    THEN AuthResult(d, 500, "integrity_error", NoHeaders, NoToken)
    ELSE AuthResult(
        [d EXCEPT !.users = Append(@, [email |-> AdminEmail,
                                       password_hash |-> hash_password(AdminPassword),
                                       role |-> ADMIN])],
        201, "", NoHeaders, NoToken)

\* (variant) the role update without the check on the admin's own role
UpdateUserRoleNoSelfCheck(d, u, user_id, new_role) ==
    IF SimpleRoleGate(d, u, ADMIN) # 200
    THEN AuthResult(d, 403, "role", NoHeaders, NoToken)
    ELSE IF user_id \notin DOMAIN d.users
    THEN AuthResult(d, 404, "user_missing", NoHeaders, NoToken)
    ELSE AuthResult([d EXCEPT !.users[user_id].role = new_role],
                    200, "", NoHeaders, NoToken)

\* admin.py update_user_role
update_user_role(d, u, user_id, new_role) ==
    IF SimpleRoleGate(d, u, ADMIN) # 200
    THEN AuthResult(d, 403, "role", NoHeaders, NoToken)
    ELSE IF user_id \notin DOMAIN d.users
    THEN AuthResult(d, 404, "user_missing", NoHeaders, NoToken)
    ELSE IF user_id = u /\ new_role # ADMIN
    THEN AuthResult(d, 400, "own_admin_privileges", NoHeaders, NoToken)
    ELSE AuthResult([d EXCEPT !.users[user_id].role = new_role],
                    200, "", NoHeaders, NoToken)

AuthRespond(op, u, arg, role, r) ==
    [op |-> op, code |-> r.code, user |-> u, arg |-> arg, role |-> role,
     detail |-> r.detail, headers |-> r.headers, token |-> r.token]

\* db.query(User).filter(User.role == role).count()
CountUsers(d, role) == Cardinality({i \in DOMAIN d.users : d.users[i].role = role})

\* db.query(ServiceRequest).filter(status in statuses).count()
CountRequests(d, statuses) ==
    Cardinality({i \in DOMAIN d.requests : d.requests[i].status \in statuses})

NoStats == [users |-> [total |-> 0, customers |-> 0, providers |-> 0, admins |-> 0],
            requests |-> [total |-> 0, pending |-> 0, active |-> 0, completed |-> 0,
                          cancelled |-> 0]]

StatsResult(c, stats) == [code |-> c, stats |-> stats]

\* (variant) the active bucket without in_progress
GetStatsActiveTwoStatuses(d, u) ==
    IF SimpleRoleGate(d, u, ADMIN) # 200 THEN StatsResult(403, NoStats)
    ELSE StatsResult(200,
           [users |-> [total |-> CountUsers(d, CUSTOMER) + CountUsers(d, PROVIDER)
                                   + CountUsers(d, ADMIN),
                       customers |-> CountUsers(d, CUSTOMER),
                       providers |-> CountUsers(d, PROVIDER),
                       admins |-> CountUsers(d, ADMIN)],
            requests |-> [total |-> Len(d.requests),
                          pending |-> CountRequests(d, {PENDING}),
                          active |-> CountRequests(d, {ACCEPTED, "on_the_way"}),
                          completed |-> CountRequests(d, {"completed"}),
                          cancelled |-> CountRequests(d, {"cancelled"})]])

\* app admin.py get_stats
get_stats(d, u) ==
    IF SimpleRoleGate(d, u, ADMIN) # 200 THEN StatsResult(403, NoStats)
    ELSE StatsResult(200,
           [users |-> [total |-> CountUsers(d, CUSTOMER) + CountUsers(d, PROVIDER)
                                   + CountUsers(d, ADMIN),
                       customers |-> CountUsers(d, CUSTOMER),
                       providers |-> CountUsers(d, PROVIDER),
                       admins |-> CountUsers(d, ADMIN)],
            requests |-> [total |-> Len(d.requests),
                          pending |-> CountRequests(d, {PENDING}),
                          active |-> CountRequests(d, {ACCEPTED, "on_the_way",
                                                       "in_progress"}),
                          completed |-> CountRequests(d, {"completed"}),
                          cancelled |-> CountRequests(d, {"cancelled"})]])

StatsRespond(op, c, stats) == [op |-> op, code |-> c, stats |-> stats]

\* An admin, a customer and a provider; the admin changes the role of the
\* user registered as customer.
StatsTargets == {2}

StatsInitDb ==
    [SimpleInitDb EXCEPT !.users = << [role |-> ADMIN], [role |-> CUSTOMER],
                                      [role |-> PROVIDER] >>]

\* ------------------------------------------------------ bearer tokens
\* A token as the server sees it: the sub claim (NoSub: no such claim), the
\* role claim, the key it was signed with and whether its exp has passed.
NoSub == "(no sub claim)"

\* backend/config.py: settings.JWT_SECRET
JWT_SECRET == "devsecret"

OtherKey == "another-key"

\* The user identifiers int() yields for the subjects submitted below.
ParsableIds == 0..9

\* int(sub): defined on the decimal strings, ValueError on anything else
IsIntString(sub) == \E n \in ParsableIds : ToString(n) = sub

int(sub) == CHOOSE n \in ParsableIds : ToString(n) = sub

\* The subjects submitted below: none, a non-integer, the three stored
\* users and a user that does not exist.
Subjects == {NoSub, "abc", "1", "2", "3", "9"}

TokensFor(key) ==
    [sub : Subjects, role : {CUSTOMER}, key : {key, OtherKey}, expired : BOOLEAN]

Identity(c, det, u) == [code |-> c, detail |-> det, user |-> u]

\* (variant) decode_token without the expiry check
MarketDecodeFailsOnKeyOnly(token) == token.key # JWT_SECRET

\* backend/utils/auth.py decode_token: jwt.decode raises JWTError on a bad
\* signature and on a passed exp
MarketDecodeFails(token) == token.key # JWT_SECRET \/ token.expired

\* backend/deps.py get_current_user.  int(user_id) is not guarded: a
\* ValueError leaves the dependency and the request ends with a 500.
get_current_user(d, token) ==
    IF MarketDecodeFails(token) THEN Identity(401, "Could not validate credentials", 0)
    ELSE IF token.sub = NoSub THEN Identity(401, "Could not validate credentials", 0)
    ELSE IF ~IsIntString(token.sub) THEN Identity(500, "ValueError", 0)
    ELSE IF int(token.sub) \notin DOMAIN d.users THEN Identity(401, "User not found", 0)
    ELSE Identity(200, "", int(token.sub))

\* backend/deps.py get_current_user_optional: no credentials, or an
\* HTTPException on the way, yield no user (user 0); any other exception
\* leaves the dependency.
get_current_user_optional(d, token) ==
    IF token = NoToken THEN Identity(200, "", 0)
    ELSE IF MarketDecodeFails(token) THEN Identity(200, "", 0)
    ELSE IF token.sub = NoSub THEN Identity(200, "", 0)
    ELSE IF ~IsIntString(token.sub) THEN Identity(500, "ValueError", 0)
    ELSE IF int(token.sub) \notin DOMAIN d.users THEN Identity(200, "", 0)
    ELSE Identity(200, "", int(token.sub))

\* app utils/security.py decode_access_token: None on JWTError
SimpleDecodeFails(token) == token.key # JWT_SECRET_KEY \/ token.expired

\* app dependencies.py get_current_user
simple_get_current_user(d, token) ==
    IF SimpleDecodeFails(token) THEN Identity(401, "Invalid or expired token", 0)
    ELSE IF token.sub = NoSub THEN Identity(401, "Token missing user ID", 0)
    ELSE IF ~IsIntString(token.sub) THEN Identity(401, "Invalid user ID in token", 0)
    ELSE IF int(token.sub) \notin DOMAIN d.users THEN Identity(401, "User not found", 0)
    ELSE Identity(200, "", int(token.sub))

\* The stores the token specification starts from: one user of each role.
GateUsers == << [role |-> CUSTOMER], [role |-> PROVIDER], [role |-> ADMIN] >>

MarketGateDb == [InitDb EXCEPT !.users = GateUsers]

SimpleGateDb == [SimpleInitDb EXCEPT !.users = GateUsers]

\* The Simple Service store of the role specification: a customer and an
\* admin.
RoleInitDb ==
    [SimpleInitDb EXCEPT !.users = << [role |-> CUSTOMER], [role |-> ADMIN] >>]

\* The service a behaviour does not exercise is as it was deployed.
SimpleUntouched == sdb \in {SimpleGateDb, RoleInitDb} /\ tokens = {}

MarketUntouched == db = MarketGateDb

\* A dependency runs before the handler body: when it raises, the body does
\* not run and the error is the response.
Gated(id, d, r) == IF id.code # 200 THEN Result(d, id.code, id.detail) ELSE r

GateRespond(app, op, token, u, r) ==
    [app |-> app, op |-> op, token |-> token, user |-> u, code |-> r.code,
     detail |-> r.detail]

\* --------------------------------------------------- Marketplace sign-in
\* backend/config.py: settings.DEMO_OTP
DEMO_OTP == "1234"

OtpInputs == {DEMO_OTP, "0000"}

\* Phone numbers as strings of characters: the empty one, which the input
\* schema refuses, three shorter than ten characters and two of ten.
Phones ==
    { << >>,
      <<"7">>,
      <<"1", "2", "3">>,
      <<"5", "5", "5", "0", "1">>,
      <<"5", "5", "5", "0", "1", "0", "0", "0", "0", "1">>,
      <<"5", "5", "5", "0", "1", "0", "0", "0", "0", "2">> }

\* The name field of the input: absent (or empty), or given.
NoName == << >>

Names == {NoName, <<"Ann">>}

\* VerifyOTPInput: phone has min_length 1
VerifyOTPInputValid(phone) == Len(phone) >= 1

\* UserRead / UserBase: phone has min_length 10
UserReadValid(user) == Len(user.phone) >= 10

\* f"User {phone[-4:]}" if len(phone) >= 4 else "User"
default_name(phone) ==
    IF Len(phone) >= 4
    THEN <<"User ">> \o SubSeq(phone, Len(phone) - 3, Len(phone))
    ELSE <<"User">>

\* backend/utils/auth.py create_access_token on verify_otp's token_data
market_create_access_token(sub, role) ==
    [sub |-> sub, role |-> role, key |-> JWT_SECRET, expired |-> FALSE]

OtpResult(d, c, det, tok, u) ==
    [db |-> d, code |-> c, detail |-> det, token |-> tok, user |-> u]

UsersWithPhone(d, phone) == {i \in DOMAIN d.users : d.users[i].phone = phone}

\* backend/routers/auth.py verify_otp.  The new user is committed before
\* the token and the UserRead of the response are built.
verify_otp(d, phone, otp, name) ==
    IF ~VerifyOTPInputValid(phone) THEN OtpResult(d, 422, "phone", NoToken, 0)
    ELSE IF otp # DEMO_OTP THEN OtpResult(d, 400, "Invalid OTP", NoToken, 0)
    ELSE LET found == UsersWithPhone(d, phone)
             new == [phone |-> phone,
                     name |-> IF name # NoName THEN name ELSE default_name(phone),
                     role |-> CUSTOMER]
             d2 == IF found = {} THEN [d EXCEPT !.users = Append(@, new)] ELSE d
             uid == IF found = {} THEN Len(d2.users) ELSE CHOOSE i \in found : TRUE
         IN IF ~UserReadValid(d2.users[uid])
            THEN OtpResult(d2, 500, "ValidationError", NoToken, 0)
            ELSE OtpResult(d2, 200, "",
                           market_create_access_token(ToString(uid), d2.users[uid].role),
                           uid)

OtpRespond(phone, otp, name, r) ==
    [op |-> "verify_otp", phone |-> phone, otp |-> otp, name |-> name,
     code |-> r.code, detail |-> r.detail, token |-> r.token, user |-> r.user]

\* seed.py: the provider the seeding script stores, "+923009876543"
SeedProviderPhone == <<"+", "9", "2", "3", "0", "0", "9", "8", "7", "6", "5", "4", "3">>

SeededUsers ==
    << [phone |-> SeedProviderPhone, name |-> <<"Ali Mechanic">>, role |-> PROVIDER] >>

\* The phone numbers submitted to a seeded store: the seeded provider's, a
\* new one of ten characters and a new one of five.
SignInPhones ==
    { SeedProviderPhone,
      <<"5", "5", "5", "0", "1", "0", "0", "0", "0", "1">>,
      <<"5", "5", "5", "0", "1">> }

\* models/user.py: phone = Column(String, unique=True, ...), as the INSERT
\* of a user with this phone meets it
UserPhoneUnique(d, phone) == UsersWithPhone(d, phone) = {}

\* A worker between sign-in requests.
OtpIdle == [pc |-> "idle", phone |-> << >>, otp |-> "", name |-> NoName, found |-> 0]

\* (variant) a supplied name is stored on the user that was found
VerifyOtpCommitUpdatesName(d, phone, name, found) ==
    LET new == [phone |-> phone,
                name |-> IF name # NoName THEN name ELSE default_name(phone),
                role |-> CUSTOMER]
        d2 == IF found = 0 THEN [d EXCEPT !.users = Append(@, new)]
              ELSE IF name # NoName THEN [d EXCEPT !.users[found].name = name]
              ELSE d
        uid == IF found = 0 THEN Len(d2.users) ELSE found
    IN IF found = 0 /\ ~UserPhoneUnique(d, phone)
       THEN OtpResult(d, 500, "IntegrityError", NoToken, 0)
       ELSE IF ~UserReadValid(d2.users[uid])
       THEN OtpResult(d2, 500, "ValidationError", NoToken, 0)
       ELSE OtpResult(d2, 200, "",
                      market_create_access_token(ToString(uid), d2.users[uid].role), uid)

\* backend/routers/auth.py verify_otp after its lookup returned found (0: no
\* row): a new user is added and committed, which the unique phone column
\* refuses when the phone has been stored since the lookup; then the token
\* and the UserRead of the response are built.
verify_otp_commit(d, phone, name, found) ==
    LET new == [phone |-> phone,
                name |-> IF name # NoName THEN name ELSE default_name(phone),
                role |-> CUSTOMER]
        d2 == IF found = 0 THEN [d EXCEPT !.users = Append(@, new)] ELSE d
        uid == IF found = 0 THEN Len(d2.users) ELSE found
    IN IF found = 0 /\ ~UserPhoneUnique(d, phone)
       THEN OtpResult(d, 500, "IntegrityError", NoToken, 0)
       ELSE IF ~UserReadValid(d2.users[uid])
       THEN OtpResult(d2, 500, "ValidationError", NoToken, 0)
       ELSE OtpResult(d2, 200, "",
                      market_create_access_token(ToString(uid), d2.users[uid].role), uid)

\* ------------------------------------------------------ database sessions
Apps == {"backend", "app"}

\* How a request leaves its handler: it returns, it raises an HTTPException,
\* or it raises anything else.
Exits == {"success", "business_error", "unexpected_exception"}

\* db = SessionLocal(): a new session for the request that called get_db
SessionLocal(app, h, n) == [app |-> app, worker |-> h, req |-> n, open |-> TRUE]

\* (variant) get_db without try/finally: close() is reached only when the
\* request returns
GetDbExitNoFinally(s, exit) == IF exit = "success" THEN [s EXCEPT !.open = FALSE] ELSE s

\* get_db after its yield: finally: db.close(), on every exit
get_db_exit(s, exit) == [s EXCEPT !.open = FALSE]

\* A worker between requests, in the session specification.
SessIdle == [pc |-> "idle", app |-> "none", req |-> 0, session |-> 0, exit |-> "none"]

\* --------------------------------------------- Marketplace provider profiles
\* A nullable value: None, or Some(v).
None == << >>

Some(v) == <<v>>

\* Coordinates are points of one meridian, in metres north of a reference
\* point; distances and radii are in metres (thousandths of a kilometre).
Latitudes == {1, 4, 151}

\* The latitudes update_location is sent in the field specification.
FieldLatitudes == {1, 4}

TheMeridian == 1

Abs(x) == IF x < 0 THEN -x ELSE x

\* backend/utils/location.py haversine_distance: the great-circle distance,
\* which along a meridian is the difference of the latitudes.
haversine_distance(lat1, lng1, lat2, lng2) == Abs(lat1 - lat2)

\* round(distance, 2) on kilometres: to the nearest ten metres, a tie to the
\* even hundredth
round2(d) ==
    LET q == d \div 10
        r == d % 10
    IN IF r < 5 THEN 10 * q
       ELSE IF r > 5 THEN 10 * (q + 1)
       ELSE IF q % 2 = 0 THEN 10 * q ELSE 10 * (q + 1)

\* radius_km: Query(ge=0.1, le=100.0)
RadiusInputs == {100, 200}

\* ProviderProfile(user_id=...) as the column defaults complete it
NewProfile(u) ==
    [user_id |-> u, city |-> None, services_offered |-> None,
     vehicle_types |-> None, is_verified |-> FALSE, average_rating |-> 5,
     total_ratings |-> 0, current_lat |-> None, current_lng |-> None,
     is_online |-> Some(FALSE)]

ProfInitDb ==
    [InitDb EXCEPT
       !.users = << [role |-> PROVIDER], [role |-> CUSTOMER], [role |-> ADMIN] >>]

\* Two providers and a customer.
LazyInitDb == [InitDb EXCEPT !.users = << [role |-> PROVIDER], [role |-> PROVIDER],
                                          [role |-> CUSTOMER] >>]

\* db.query(ProviderProfile).filter(user_id == u)
ProfilesOf(d, u) == {i \in DOMAIN d.profiles : d.profiles[i].user_id = u}

\* .first()
First(S) == CHOOSE i \in S : \A j \in S : i <= j

\* customer.py create_service_request with the coordinates of the input
create_service_request_at(d, u, lat, lng) ==
    IF RoleGate(d, u, CUSTOMER) # 200 THEN Result(d, 403, "role")
    ELSE Result([d EXCEPT !.requests =
                    Append(@, [customer_id |-> u, status |-> PENDING_OFFERS,
                               lat |-> lat, lng |-> lng])],
                201, "")

\* list.sort(key=...): a stable insertion sort on distance_km
RECURSIVE InsertSorted(_, _)
InsertSorted(sorted, x) ==
    IF sorted = << >> THEN <<x>>
    ELSE IF sorted[Len(sorted)].distance_km <= x.distance_km
         THEN Append(sorted, x)
    ELSE Append(InsertSorted(SubSeq(sorted, 1, Len(sorted) - 1), x),
                sorted[Len(sorted)])

RECURSIVE SortByDistanceKm(_)
SortByDistanceKm(items) ==
    IF items = << >> THEN << >>
    ELSE InsertSorted(SortByDistanceKm(SubSeq(items, 1, Len(items) - 1)),
                      items[Len(items)])

\* provider.py get_nearby_requests, the loop over the pending requests in
\* the order the query returns them (by id)
NearbyItems(d, profile, radius, upto) ==
    LET Keep(i) ==
            /\ d.requests[i].status = PENDING_OFFERS
            /\ haversine_distance(profile.current_lat[1], profile.current_lng[1],
                                  d.requests[i].lat, d.requests[i].lng) <= radius
        F[n \in 0..upto] ==
            IF n = 0 THEN << >>
            ELSE IF Keep(n)
                 THEN Append(F[n - 1],
                        [id |-> n,
                         distance_km |-> round2(haversine_distance(
                             profile.current_lat[1], profile.current_lng[1],
                             d.requests[n].lat, d.requests[n].lng))])
                 ELSE F[n - 1]
    IN F[upto]

NearbyResult(d, c, det, items) == [db |-> d, code |-> c, detail |-> det, items |-> items]

\* provider.py get_nearby_requests
get_nearby_requests(d, u, radius) ==
    IF RoleGate(d, u, PROVIDER) # 200 THEN NearbyResult(d, 403, "role", << >>)
    ELSE IF \/ ProfilesOf(d, u) = {}
            \/ d.profiles[First(ProfilesOf(d, u))].current_lat = None
            \/ d.profiles[First(ProfilesOf(d, u))].current_lng = None
         THEN NearbyResult(d, 400, "location_not_set", << >>)
    ELSE NearbyResult(d, 200, "",
            SortByDistanceKm(NearbyItems(d, d.profiles[First(ProfilesOf(d, u))],
                                         radius, Len(d.requests))))

\* ProviderProfileUpdate as the requests below send it: the fields that are
\* set, each to a value or to null.
ProfilePayloads ==
    { [city |-> Some("SF")],
      [city |-> None, services_offered |-> Some("tow")],
      [current_lat |-> Some(3)],
      [current_lat |-> None],
      [current_lng |-> Some(TheMeridian)],
      [current_lng |-> None],
      [is_online |-> Some(TRUE)],
      [is_online |-> None],
      [vehicle_types |-> Some("car"), current_lat |-> Some(4),
       current_lng |-> Some(TheMeridian)] }

\* The fields ProviderProfileUpdate declares.
ProviderProfileUpdateFields ==
    {"city", "services_offered", "vehicle_types", "current_lat", "current_lng",
     "is_online"}

\* The bodies sent to PUT /provider/profile in the profile specification;
\* two of them name fields the schema does not declare.
ProfileBodies ==
    { [city |-> Some("SF")],
      [is_online |-> Some(TRUE)],
      [is_online |-> None],
      [current_lat |-> None],
      [is_verified |-> TRUE],
      [average_rating |-> 1, total_ratings |-> 9, city |-> None] }

\* (variant) a schema that keeps undeclared fields
ProviderProfileUpdateAllowExtra(body) == body

\* ProviderProfileUpdate(**body) and model_dump(exclude_unset=True): the
\* declared fields that were sent; pydantic ignores the others
ProviderProfileUpdate(body) ==
    [f \in DOMAIN body \cap ProviderProfileUpdateFields |-> body[f]]

\* (variant) an update that replaces the whole row: the fields that were
\* not sent fall back to their defaults
ApplyPayloadFullReplace(profile, payload) ==
    [f \in DOMAIN profile |->
        IF f \in DOMAIN payload THEN payload[f]
        ELSE IF f \in ProviderProfileUpdateFields THEN NewProfile(0)[f]
        ELSE profile[f]]

\* for field, value in update_data.items(): setattr(profile, field, value)
ApplyPayload(profile, payload) ==
    [f \in DOMAIN profile |-> IF f \in DOMAIN payload THEN payload[f] ELSE profile[f]]

\* is_online is NOT NULL (models/provider_profile.py)
NotNullViolation(profile) == profile.is_online = None

\* The unit of work leaves a None attribute of a pending row out of the
\* INSERT, so the column default applies: is_online = Column(Boolean,
\* default=False, nullable=False)
InsertDefaults(profile) ==
    [profile EXCEPT !.is_online = IF @ = None THEN NewProfile(0).is_online ELSE @]

\* (variant) provider_profiles.user_id without its UNIQUE constraint
UniqueUserIdNever(d, u) == FALSE

\* provider_profiles.user_id is UNIQUE
UniqueUserIdViolation(d, u) == ProfilesOf(d, u) # {}

\* provider.py get_provider_profile after its lookup found the rows `found`
GetProviderProfileCommit(d, u, found) ==
    IF found # {} THEN Result(d, 200, "")
    ELSE IF UniqueUserIdViolation(d, u) THEN Result(d, 500, "integrity_error")
    ELSE Result([d EXCEPT !.profiles = Append(@, NewProfile(u))], 200, "")

get_provider_profile(d, u) ==
    IF RoleGate(d, u, PROVIDER) # 200 THEN Result(d, 403, "role")
    ELSE GetProviderProfileCommit(d, u, ProfilesOf(d, u))

\* provider.py update_provider_profile after its lookup found `found`
UpdateProviderProfileCommit(d, u, found, payload) ==
    IF found # {}
    THEN IF NotNullViolation(ApplyPayload(d.profiles[First(found)], payload))
         THEN Result(d, 500, "integrity_error")
         ELSE Result([d EXCEPT !.profiles[First(found)] = ApplyPayload(@, payload)],
                     200, "")
    ELSE IF UniqueUserIdViolation(d, u)
         THEN Result(d, 500, "integrity_error")
         ELSE Result([d EXCEPT !.profiles =
                         Append(@, InsertDefaults(ApplyPayload(NewProfile(u), payload)))],
                     200, "")

update_provider_profile(d, u, payload) ==
    IF RoleGate(d, u, PROVIDER) # 200 THEN Result(d, 403, "role")
    ELSE UpdateProviderProfileCommit(d, u, ProfilesOf(d, u), payload)

\* provider.py update_location
update_location(d, u, lat, lng) ==
    IF RoleGate(d, u, PROVIDER) # 200 THEN Result(d, 403, "role")
    ELSE IF ProfilesOf(d, u) = {} THEN Result(d, 404, "profile_missing")
    ELSE Result([d EXCEPT !.profiles[First(ProfilesOf(d, u))].current_lat = Some(lat),
                          !.profiles[First(ProfilesOf(d, u))].current_lng = Some(lng)],
                200, "")

\* Coordinates in whole degrees, as the range checks below see them.
Degrees == {-181, 0, 91}

\* Field(..., ge=-90, le=90)
LatitudeField(x) == x >= -90 /\ x <= 90

\* Field(..., ge=-180, le=180)
LongitudeField(x) == x >= -180 /\ x <= 180

\* schemas/service_request.py ServiceRequestCreate: lat and lng
ServiceRequestCreateValid(lat, lng) == LatitudeField(lat) /\ LongitudeField(lng)

\* schemas/provider_schemas.py LocationUpdate
LocationUpdateValid(lat, lng) == LatitudeField(lat) /\ LongitudeField(lng)

\* schemas/provider_profile.py ProviderProfileUpdate: current_lat and
\* current_lng are Optional[float] = None, any number or null
ProviderProfileUpdateValid(body) == TRUE

\* The bodies sent to PUT /provider/profile in the coordinate specification.
CoordBodies ==
    { [city |-> Some("SF")] }
    \cup { [current_lat |-> Some(x), current_lng |-> Some(y)] : x, y \in Degrees }

\* admin.py update_provider_verification
update_provider_verification(d, u, pid, flag) ==
    IF RoleGate(d, u, ADMIN) # 200 THEN Result(d, 403, "role")
    ELSE IF pid \notin DOMAIN d.profiles THEN Result(d, 404, "profile_missing")
    ELSE Result([d EXCEPT !.profiles[pid].is_verified = flag], 200, "")

ProfRespond(op, u, r) ==
    [op |-> op, user |-> u, code |-> r.code, detail |-> r.detail, radius |-> 0,
     items |-> << >>]

\* ---------------------------------------------------- reading one's own
\* customer.py get_service_request
get_service_request(d, u, rid) ==
    IF RoleGate(d, u, CUSTOMER) # 200 THEN Result(d, 403, "role")
    ELSE IF rid \notin DOMAIN d.requests THEN Result(d, 404, "request_missing")
    ELSE IF d.requests[rid].customer_id # u THEN Result(d, 403, "not_owner")
    ELSE Result(d, 200, "")

\* customer.py get_job
get_job(d, u, jid) ==
    IF RoleGate(d, u, CUSTOMER) # 200 THEN Result(d, 403, "role")
    ELSE IF jid \notin DOMAIN d.jobs THEN Result(d, 404, "job_missing")
    ELSE IF d.requests[d.jobs[jid].service_request_id].customer_id # u
         THEN Result(d, 403, "not_owner")
    ELSE Result(d, 200, "")

\* app requests.py get_request
get_request(d, u, rid) ==
    IF SimpleRoleGate(d, u, CUSTOMER) # 200 THEN Result(d, 403, "role")
    ELSE IF rid \notin DOMAIN d.requests THEN Result(d, 404, "request_missing")
    ELSE IF d.requests[rid].customer_id # u THEN Result(d, 403, "not_owner")
    ELSE Result(d, 200, "")

\* Simple Service accounts with two customers.
SimpleOwnDb ==
    [SimpleInitDb EXCEPT
       !.users = << [role |-> CUSTOMER], [role |-> CUSTOMER], [role |-> PROVIDER] >>]

OwnRespond(app, op, u, arg, r) ==
    [app |-> app, op |-> op, user |-> u, arg |-> arg, code |-> r.code,
     detail |-> r.detail]

\* ---------------------------------------------------------------- actions
\* One request handled start to finish.  Identifiers are drawn from the
\* existing rows and one missing row.
CreateServiceRequest ==
    \E u \in DOMAIN db.users :
        LET r == create_service_request(db, u) IN
        /\ r.code = 201 => Len(db.requests) < MaxRequests
        /\ db' = r.db
        /\ resp' = Respond("create_service_request", u, 0, r)
        /\ UNCHANGED <<tokens, sessions, sdb, hnd>>

CreateOffer ==
    \E u \in DOMAIN db.users, rid \in 1..(Len(db.requests) + 1) :
        LET r == create_offer(db, u, rid) IN
        /\ r.code = 201 => Len(db.offers) < MaxOffers
        /\ db' = r.db
        /\ resp' = Respond("create_offer", u, rid, r)
        /\ UNCHANGED <<tokens, sessions, sdb, hnd>>

AcceptOffer ==
    \E u \in DOMAIN db.users, oid \in 1..(Len(db.offers) + 1) :
        LET r == accept_offer(db, u, oid) IN
        /\ db' = r.db
        /\ resp' = Respond("accept_offer", u, oid, r)
        /\ UNCHANGED <<tokens, sessions, sdb, hnd>>

\* The writes of the four operations with the response left unrecorded (a
\* refused call writes nothing): the persisted state alone.
DbCreateServiceRequest ==
    \E u \in DOMAIN db.users :
        LET r == create_service_request(db, u) IN
        /\ r.code = 201 /\ Len(db.requests) < MaxRequests
        /\ db' = r.db
        /\ UNCHANGED <<tokens, sessions, sdb, resp, hnd>>

DbCreateOffer ==
    \E u \in DOMAIN db.users, rid \in DOMAIN db.requests :
        LET r == create_offer(db, u, rid) IN
        /\ r.code = 201 /\ Len(db.offers) < MaxOffers
        /\ db' = r.db
        /\ UNCHANGED <<tokens, sessions, sdb, resp, hnd>>

DbAcceptOffer ==
    \E u \in DOMAIN db.users, oid \in DOMAIN db.offers :
        LET r == accept_offer(db, u, oid) IN
        /\ r.code = 200
        /\ db' = r.db
        /\ UNCHANGED <<tokens, sessions, sdb, resp, hnd>>

DbUpdateJobStatus ==
    \E u \in DOMAIN db.users, jid \in DOMAIN db.jobs, s \in JobStatusInputs :
        LET r == update_job_status(db, u, jid, s) IN
        /\ r.code = 200
        /\ db' = r.db
        /\ UNCHANGED <<tokens, sessions, sdb, resp, hnd>>

\* Marketplace, the life of a job with every status update recorded.
JobCreateServiceRequest ==
    \E u \in DOMAIN db.users :
        LET r == create_service_request(db, u) IN
        /\ r.code = 201 /\ Len(db.requests) < JobMaxRequests
        /\ db' = r.db
        /\ resp' = JobRespond("create_service_request", u, 0, "", r, db)
        /\ UNCHANGED <<tokens, sessions, sdb, hnd>>

JobCreateOffer ==
    \E u \in DOMAIN db.users, rid \in DOMAIN db.requests :
        LET r == create_offer(db, u, rid) IN
        /\ r.code = 201 /\ Len(db.offers) < JobMaxRequests
        /\ db' = r.db
        /\ resp' = JobRespond("create_offer", u, 0, "", r, db)
        /\ UNCHANGED <<tokens, sessions, sdb, hnd>>

JobAcceptOffer ==
    \E u \in DOMAIN db.users, oid \in DOMAIN db.offers :
        LET r == accept_offer(db, u, oid) IN
        /\ r.code = 200
        /\ db' = r.db
        /\ resp' = JobRespond("accept_offer", u, 0, "", r, db)
        /\ UNCHANGED <<tokens, sessions, sdb, hnd>>

JobUpdateJobStatus ==
    \E u \in DOMAIN db.users, jid \in 1..(Len(db.jobs) + 1),
       s \in JobStatus \cup {BogusStatus} :
        LET r == update_job_status(db, u, jid, s) IN
        /\ db' = r.db
        /\ resp' = JobRespond("update_job_status", u, jid, s, r, db)
        /\ UNCHANGED <<tokens, sessions, sdb, hnd>>

\* Requests as they arrive: a bearer token instead of a user.  The two
\* services are separate applications with separate databases; a behaviour
\* of the token specification exercises one of them.
GateCreateServiceRequest ==
    \E token \in TokensFor(JWT_SECRET) :
        LET id == get_current_user(db, token)
            r == Gated(id, db, create_service_request(db, id.user)) IN
        /\ SimpleUntouched
        /\ r.code = 201 => Len(db.requests) < GateMaxRows
        /\ db' = r.db
        /\ resp' = GateRespond("backend", "create_service_request", token, id.user, r)
        /\ UNCHANGED <<tokens, sessions, sdb, hnd>>

GateCreateOffer ==
    \E token \in TokensFor(JWT_SECRET), rid \in 1..(Len(db.requests) + 1) :
        LET id == get_current_user(db, token)
            r == Gated(id, db, create_offer(db, id.user, rid)) IN
        /\ SimpleUntouched
        /\ r.code = 201 => Len(db.offers) < GateMaxRows
        /\ db' = r.db
        /\ resp' = GateRespond("backend", "create_offer", token, id.user, r)
        /\ UNCHANGED <<tokens, sessions, sdb, hnd>>

GateAcceptOffer ==
    \E token \in TokensFor(JWT_SECRET), oid \in 1..(Len(db.offers) + 1) :
        LET id == get_current_user(db, token)
            r == Gated(id, db, accept_offer(db, id.user, oid)) IN
        /\ SimpleUntouched
        /\ db' = r.db
        /\ resp' = GateRespond("backend", "accept_offer", token, id.user, r)
        /\ UNCHANGED <<tokens, sessions, sdb, hnd>>

GateUpdateJobStatus ==
    \E token \in TokensFor(JWT_SECRET), jid \in 1..(Len(db.jobs) + 1),
       s \in JobStatusInputs :
        LET id == get_current_user(db, token)
            r == Gated(id, db, update_job_status(db, id.user, jid, s)) IN
        /\ SimpleUntouched
        /\ db' = r.db
        /\ resp' = GateRespond("backend", "update_job_status", token, id.user, r)
        /\ UNCHANGED <<tokens, sessions, sdb, hnd>>

\* A request to an endpoint that declares the optional identity; NoToken is
\* a request without an Authorization header.
GateOptional ==
    \E token \in TokensFor(JWT_SECRET) \cup {NoToken} :
        LET id == get_current_user_optional(db, token) IN
        /\ SimpleUntouched
        /\ resp' = GateRespond("backend", "get_current_user_optional", token,
                               id.user, id)
        /\ UNCHANGED <<tokens, sessions, db, sdb, hnd>>

SimpleGateCreateServiceRequest ==
    \E token \in TokensFor(JWT_SECRET_KEY) :
        LET id == simple_get_current_user(sdb, token)
            r == Gated(id, sdb, simple_create_service_request(sdb, id.user)) IN
        /\ MarketUntouched
        /\ r.code = 201 => Len(sdb.requests) < GateMaxRows
        /\ sdb' = r.db
        /\ resp' = GateRespond("app", "create_service_request", token, id.user, r)
        /\ UNCHANGED <<tokens, sessions, db, hnd>>

SimpleGateAcceptRequest ==
    \E token \in TokensFor(JWT_SECRET_KEY), rid \in 1..(Len(sdb.requests) + 1) :
        LET id == simple_get_current_user(sdb, token)
            r == Gated(id, sdb, accept_request(sdb, id.user, rid)) IN
        /\ MarketUntouched
        /\ sdb' = r.db
        /\ resp' = GateRespond("app", "accept_request", token, id.user, r)
        /\ UNCHANGED <<tokens, sessions, db, hnd>>

SimpleGateUpdateRequestStatus ==
    \E token \in TokensFor(JWT_SECRET_KEY), rid \in 1..(Len(sdb.requests) + 1),
       s \in SimpleRequestStatus :
        LET id == simple_get_current_user(sdb, token)
            r == Gated(id, sdb, update_request_status(sdb, id.user, rid, s)) IN
        /\ MarketUntouched
        /\ sdb' = r.db
        /\ resp' = GateRespond("app", "update_request_status", token, id.user, r)
        /\ UNCHANGED <<tokens, sessions, db, hnd>>

\* Marketplace sign-in.
VerifyOtp ==
    \E phone \in Phones, otp \in OtpInputs, name \in Names :
        LET r == verify_otp(db, phone, otp, name) IN
        /\ Len(r.db.users) <= OtpMaxUsers
        /\ db' = r.db
        /\ resp' = OtpRespond(phone, otp, name, r)
        /\ UNCHANGED <<tokens, sessions, sdb, hnd>>

\* Marketplace sign-in, two requests at a time.  A request with a code
\* other than the demo code is refused before the store is read.
VerifyOtpRefuse ==
    \E h \in Handlers, phone \in SignInPhones, otp \in OtpInputs, name \in Names :
        /\ hnd[h].pc \in {"idle", "done"}
        /\ otp # DEMO_OTP
        /\ resp' = OtpRespond(phone, otp, name,
                              OtpResult(db, 400, "Invalid OTP", NoToken, 0))
        /\ hnd' = [hnd EXCEPT ![h] = [OtpIdle EXCEPT !.pc = "done"]]
        /\ UNCHANGED <<tokens, sessions, db, sdb>>

\* verify_otp up to db.query(User).filter(User.phone == phone).first()
VerifyOtpLookup ==
    \E h \in Handlers, phone \in SignInPhones, name \in Names :
        /\ hnd[h].pc \in {"idle", "done"}
        /\ VerifyOTPInputValid(phone)
        /\ hnd' = [hnd EXCEPT ![h] =
                     [pc |-> "looked", phone |-> phone, otp |-> DEMO_OTP, name |-> name,
                      found |-> IF UsersWithPhone(db, phone) = {} THEN 0
                                ELSE First(UsersWithPhone(db, phone))]]
        /\ UNCHANGED <<tokens, sessions, db, sdb, resp>>

\* verify_otp from "if user is None" to its return
VerifyOtpFinish ==
    \E h \in Handlers :
        LET r == verify_otp_commit(db, hnd[h].phone, hnd[h].name, hnd[h].found) IN
        /\ hnd[h].pc = "looked"
        /\ Len(r.db.users) <= OtpConcMaxUsers
        /\ db' = r.db
        /\ resp' = OtpRespond(hnd[h].phone, hnd[h].otp, hnd[h].name, r)
        /\ hnd' = [hnd EXCEPT ![h] = [OtpIdle EXCEPT !.pc = "done"]]
        /\ UNCHANGED <<tokens, sessions, sdb>>

\* The life of a request around its handler.  A request's dependencies
\* are resolved first; every Depends(get_db) of the request, the handler's
\* and the identity dependency's, is served by one call of get_db, which
\* runs up to its yield.
RequestStart ==
    \E h \in Handlers, app \in Apps :
        /\ hnd[h].pc \in {"idle", "finished"}
        /\ Len(sessions) < MaxSessions
        /\ sessions' = Append(sessions, SessionLocal(app, h, hnd[h].req + 1))
        /\ hnd' = [hnd EXCEPT ![h] = [pc |-> "handling", app |-> app,
                                      req |-> hnd[h].req + 1,
                                      session |-> Len(sessions) + 1,
                                      exit |-> "none"]]
        /\ UNCHANGED <<tokens, db, sdb, resp>>

\* The handler, or a dependency that uses the session, returns or raises.
HandlerExit ==
    \E h \in Handlers, exit \in Exits :
        /\ hnd[h].pc = "handling"
        /\ hnd' = [hnd EXCEPT ![h].pc = "exiting", ![h].exit = exit]
        /\ UNCHANGED <<tokens, db, sdb, resp, sessions>>

\* get_db is resumed, or the exception is thrown into it at the yield; the
\* request is finished afterwards.
GetDbExit ==
    \E h \in Handlers :
        /\ hnd[h].pc = "exiting"
        /\ sessions' = [sessions EXCEPT ![hnd[h].session] = get_db_exit(@, hnd[h].exit)]
        /\ hnd' = [hnd EXCEPT ![h].pc = "finished"]
        /\ UNCHANGED <<tokens, db, sdb, resp>>

\* Marketplace provider profiles and the nearby-requests query.
NearbyCreateServiceRequest ==
    \E u \in DOMAIN db.users, lat \in Latitudes :
        LET r == create_service_request_at(db, u, lat, TheMeridian) IN
        /\ r.code = 201 /\ Len(db.requests) < NearbyMaxRequests
        /\ db' = r.db
        /\ resp' = ProfRespond("create_service_request", u, r)
        /\ UNCHANGED <<tokens, sessions, sdb, hnd>>

NearbyCreateOffer ==
    \E u \in DOMAIN db.users, rid \in DOMAIN db.requests :
        LET r == create_offer(db, u, rid) IN
        /\ r.code = 201 /\ Len(db.offers) < NearbyMaxRequests
        /\ db' = r.db
        /\ resp' = ProfRespond("create_offer", u, r)
        /\ UNCHANGED <<tokens, sessions, sdb, hnd>>

NearbyUpdateProviderProfile ==
    \E u \in DOMAIN db.users, payload \in ProfilePayloads :
        LET r == update_provider_profile(db, u, payload) IN
        /\ r.code = 200
        /\ DOMAIN payload \subseteq {"current_lat", "current_lng"}
        /\ db' = r.db
        /\ resp' = ProfRespond("update_provider_profile", u, r)
        /\ UNCHANGED <<tokens, sessions, sdb, hnd>>

NearbyUpdateLocation ==
    \E u \in DOMAIN db.users, lat \in Latitudes :
        LET r == update_location(db, u, lat, TheMeridian) IN
        /\ r.code = 200
        /\ db' = r.db
        /\ resp' = ProfRespond("update_location", u, r)
        /\ UNCHANGED <<tokens, sessions, sdb, hnd>>

GetNearbyRequests ==
    \E u \in DOMAIN db.users, radius \in RadiusInputs :
        LET r == get_nearby_requests(db, u, radius) IN
        /\ resp' = [ProfRespond("get_nearby_requests", u, r)
                      EXCEPT !.radius = radius, !.items = r.items]
        /\ UNCHANGED <<tokens, sessions, db, sdb, hnd>>

GateGetProviderProfile ==
    \E token \in TokensFor(JWT_SECRET) :
        LET id == get_current_user(db, token)
            r == Gated(id, db, get_provider_profile(db, id.user)) IN
        /\ SimpleUntouched
        /\ db' = r.db
        /\ resp' = GateRespond("backend", "get_provider_profile", token, id.user, r)
        /\ UNCHANGED <<tokens, sessions, sdb, hnd>>

GateUpdateProviderVerification ==
    \E token \in TokensFor(JWT_SECRET), pid \in 1..(Len(db.profiles) + 1),
       flag \in BOOLEAN :
        LET id == get_current_user(db, token)
            r == Gated(id, db, update_provider_verification(db, id.user, pid, flag)) IN
        /\ SimpleUntouched
        /\ db' = r.db
        /\ resp' = GateRespond("backend", "update_provider_verification", token,
                               id.user, r)
        /\ UNCHANGED <<tokens, sessions, sdb, hnd>>

\* Simple Service: a successful login (or registration) hands the client a
\* token that carries the user's identifier and the role stored at that time.
IssueToken ==
    \E u \in DOMAIN sdb.users :
        /\ MarketUntouched
        /\ Cardinality(tokens) < RoleMaxTokens
        /\ tokens' = tokens \cup {create_token_for_user(u, sdb.users[u].role)}
        /\ resp' = GateRespond("app", "login",
                               create_token_for_user(u, sdb.users[u].role), u,
                               Result(sdb, 200, ""))
        /\ UNCHANGED <<sessions, db, sdb, hnd>>

\* Simple Service requests made with a token a client holds.
RoleCreateServiceRequest ==
    \E token \in tokens :
        LET id == simple_get_current_user(sdb, token)
            r == Gated(id, sdb, simple_create_service_request(sdb, id.user)) IN
        /\ MarketUntouched
        /\ r.code = 201 => Len(sdb.requests) < RoleMaxTokens - 1
        /\ sdb' = r.db
        /\ resp' = GateRespond("app", "create_service_request", token, id.user, r)
        /\ UNCHANGED <<tokens, sessions, db, hnd>>

RoleAcceptRequest ==
    \E token \in tokens, rid \in 1..(Len(sdb.requests) + 1) :
        LET id == simple_get_current_user(sdb, token)
            r == Gated(id, sdb, accept_request(sdb, id.user, rid)) IN
        /\ MarketUntouched
        /\ sdb' = r.db
        /\ resp' = GateRespond("app", "accept_request", token, id.user, r)
        /\ UNCHANGED <<tokens, sessions, db, hnd>>

RoleUpdateUserRole ==
    \E token \in tokens, user_id \in 1..(Len(sdb.users) + 1), new_role \in UserRole :
        LET id == simple_get_current_user(sdb, token)
            r == Gated(id, sdb, update_user_role(sdb, id.user, user_id, new_role)) IN
        /\ MarketUntouched
        /\ sdb' = r.db
        /\ resp' = GateRespond("app", "update_user_role", token, id.user, r)
        /\ UNCHANGED <<tokens, sessions, db, hnd>>

\* Two customers of each service and the resources they own.
OwnCreateServiceRequest ==
    \E u \in DOMAIN db.users :
        LET r == create_service_request(db, u) IN
        /\ r.code = 201 /\ Len(db.requests) < OwnMaxRequests
        /\ db' = r.db
        /\ resp' = OwnRespond("backend", "create_service_request", u, 0, r)
        /\ UNCHANGED <<tokens, sessions, sdb, hnd>>

OwnCreateOffer ==
    \E u \in DOMAIN db.users, rid \in DOMAIN db.requests :
        LET r == create_offer(db, u, rid) IN
        /\ r.code = 201 /\ Len(db.offers) < OwnMaxRequests
        /\ db' = r.db
        /\ resp' = OwnRespond("backend", "create_offer", u, rid, r)
        /\ UNCHANGED <<tokens, sessions, sdb, hnd>>

OwnAcceptOffer ==
    \E u \in DOMAIN db.users, oid \in 1..(Len(db.offers) + 1) :
        LET r == accept_offer(db, u, oid) IN
        /\ db' = r.db
        /\ resp' = OwnRespond("backend", "accept_offer", u, oid, r)
        /\ UNCHANGED <<tokens, sessions, sdb, hnd>>

GetServiceRequest ==
    \E u \in DOMAIN db.users, rid \in 1..(Len(db.requests) + 1) :
        LET r == get_service_request(db, u, rid) IN
        /\ resp' = OwnRespond("backend", "get_service_request", u, rid, r)
        /\ UNCHANGED <<tokens, sessions, db, sdb, hnd>>

GetJob ==
    \E u \in DOMAIN db.users, jid \in 1..(Len(db.jobs) + 1) :
        LET r == get_job(db, u, jid) IN
        /\ resp' = OwnRespond("backend", "get_job", u, jid, r)
        /\ UNCHANGED <<tokens, sessions, db, sdb, hnd>>

OwnSimpleCreateServiceRequest ==
    \E u \in DOMAIN sdb.users :
        LET r == simple_create_service_request(sdb, u) IN
        /\ r.code = 201 /\ Len(sdb.requests) < OwnMaxRequests
        /\ sdb' = r.db
        /\ resp' = OwnRespond("app", "create_service_request", u, 0, r)
        /\ UNCHANGED <<tokens, sessions, db, hnd>>

GetRequest ==
    \E u \in DOMAIN sdb.users, rid \in 1..(Len(sdb.requests) + 1) :
        LET r == get_request(sdb, u, rid) IN
        /\ resp' = OwnRespond("app", "get_request", u, rid, r)
        /\ UNCHANGED <<tokens, sessions, db, sdb, hnd>>

\* Marketplace, every operation that could touch a provider profile, and the
\* customer's and provider's other writes.
ProfGetProviderProfile ==
    \E u \in DOMAIN db.users :
        LET r == get_provider_profile(db, u) IN
        /\ db' = r.db
        /\ resp' = ProfRespond("get_provider_profile", u, r)
        /\ UNCHANGED <<tokens, sessions, sdb, hnd>>

ProfUpdateProviderProfile ==
    \E u \in DOMAIN db.users, body \in ProfileBodies :
        LET r == update_provider_profile(db, u, ProviderProfileUpdate(body)) IN
        /\ db' = r.db
        /\ resp' = ProfRespond("update_provider_profile", u, r)
        /\ UNCHANGED <<tokens, sessions, sdb, hnd>>

ProfUpdateLocation ==
    \E u \in DOMAIN db.users :
        LET r == update_location(db, u, 1, TheMeridian) IN
        /\ db' = r.db
        /\ resp' = ProfRespond("update_location", u, r)
        /\ UNCHANGED <<tokens, sessions, sdb, hnd>>

ProfUpdateProviderVerification ==
    \E u \in DOMAIN db.users, pid \in 1..(Len(db.profiles) + 1), flag \in BOOLEAN :
        LET r == update_provider_verification(db, u, pid, flag) IN
        /\ db' = r.db
        /\ resp' = ProfRespond("update_provider_verification", u, r)
        /\ UNCHANGED <<tokens, sessions, sdb, hnd>>

ProfCreateServiceRequest ==
    \E u \in DOMAIN db.users :
        LET r == create_service_request_at(db, u, 1, TheMeridian) IN
        /\ r.code = 201 => Len(db.requests) < ProfMaxRows
        /\ db' = r.db
        /\ resp' = ProfRespond("create_service_request", u, r)
        /\ UNCHANGED <<tokens, sessions, sdb, hnd>>

ProfCreateOffer ==
    \E u \in DOMAIN db.users, rid \in DOMAIN db.requests :
        LET r == create_offer(db, u, rid) IN
        /\ r.code = 201 => Len(db.offers) < ProfMaxRows
        /\ db' = r.db
        /\ resp' = ProfRespond("create_offer", u, r)
        /\ UNCHANGED <<tokens, sessions, sdb, hnd>>

ProfAcceptOffer ==
    \E u \in DOMAIN db.users, oid \in DOMAIN db.offers :
        LET r == accept_offer(db, u, oid) IN
        /\ db' = r.db
        /\ resp' = ProfRespond("accept_offer", u, r)
        /\ UNCHANGED <<tokens, sessions, sdb, hnd>>

ProfUpdateJobStatus ==
    \E u \in DOMAIN db.users, jid \in DOMAIN db.jobs, s \in JobStatusInputs :
        LET r == update_job_status(db, u, jid, s) IN
        /\ db' = r.db
        /\ resp' = ProfRespond("update_job_status", u, r)
        /\ UNCHANGED <<tokens, sessions, sdb, hnd>>

\* get_provider_profile and update_provider_profile in two steps: the role
\* dependency and the SELECT of the caller's profile, then the rest of the
\* handler up to db.commit().
LazyIdle == [pc |-> "idle", op |-> "none", user |-> 0, found |-> {}, body |-> << >>,
             code |-> 0]

LazyBodies == { [city |-> Some("SF")], [is_online |-> None] }

ProfileLookup ==
    \E h \in Handlers, u \in DOMAIN db.users,
       op \in {"get_provider_profile", "update_provider_profile"},
       body \in LazyBodies :
        /\ hnd[h].pc \in {"idle", "done"}
        /\ op = "get_provider_profile" => body = [city |-> Some("SF")]
        /\ hnd' = [hnd EXCEPT ![h] =
                     IF RoleGate(db, u, PROVIDER) # 200
                     THEN [LazyIdle EXCEPT !.pc = "done", !.op = op, !.user = u,
                                           !.code = 403]
                     ELSE [LazyIdle EXCEPT !.pc = "looked", !.op = op, !.user = u,
                                           !.found = ProfilesOf(db, u),
                                           !.body = IF op = "get_provider_profile"
                                                    THEN << >>
                                                    ELSE ProviderProfileUpdate(body)]]
        /\ UNCHANGED <<tokens, sessions, db, sdb, resp>>

ProfileCommit ==
    \E h \in Handlers :
        LET r == IF hnd[h].op = "get_provider_profile"
                 THEN GetProviderProfileCommit(db, hnd[h].user, hnd[h].found)
                 ELSE UpdateProviderProfileCommit(db, hnd[h].user, hnd[h].found,
                                                  hnd[h].body) IN
        /\ hnd[h].pc = "looked"
        /\ db' = r.db
        /\ hnd' = [hnd EXCEPT ![h].pc = "done", ![h].found = {}, ![h].body = << >>,
                              ![h].code = r.code]
        /\ UNCHANGED <<tokens, sessions, sdb, resp>>

LazyUpdateLocation ==
    \E u \in DOMAIN db.users :
        LET r == update_location(db, u, 1, TheMeridian) IN
        /\ db' = r.db
        /\ resp' = ProfRespond("update_location", u, r)
        /\ UNCHANGED <<tokens, sessions, sdb, hnd>>

\* Marketplace, a provider's profile written field by field: the body of
\* each update is recorded with the response.
FieldBodies == {b \in ProfilePayloads : "current_lng" \notin DOMAIN b}

FieldRespond(op, u, r, body) ==
    [op |-> op, user |-> u, code |-> r.code, detail |-> r.detail, body |-> body]

FieldGetProviderProfile ==
    \E u \in DOMAIN db.users :
        LET r == get_provider_profile(db, u) IN
        /\ db' = r.db
        /\ resp' = FieldRespond("get_provider_profile", u, r, << >>)
        /\ UNCHANGED <<tokens, sessions, sdb, hnd>>

FieldUpdateProviderProfile ==
    \E u \in DOMAIN db.users, body \in FieldBodies :
        LET r == update_provider_profile(db, u, ProviderProfileUpdate(body)) IN
        /\ db' = r.db
        /\ resp' = FieldRespond("update_provider_profile", u, r,
                                ProviderProfileUpdate(body))
        /\ UNCHANGED <<tokens, sessions, sdb, hnd>>

FieldUpdateLocation ==
    \E u \in DOMAIN db.users, lat \in FieldLatitudes :
        LET r == update_location(db, u, lat, TheMeridian) IN
        /\ db' = r.db
        /\ resp' = FieldRespond("update_location", u, r, << >>)
        /\ UNCHANGED <<tokens, sessions, sdb, hnd>>

FieldGetNearbyRequests ==
    \E u \in DOMAIN db.users, radius \in RadiusInputs :
        LET r == get_nearby_requests(db, u, radius) IN
        /\ resp' = FieldRespond("get_nearby_requests", u, r, << >>)
        /\ UNCHANGED <<tokens, sessions, db, sdb, hnd>>

\* Marketplace, the three operations that store coordinates, each behind
\* the validation of its input schema.
CoordCreateServiceRequest ==
    \E u \in DOMAIN db.users, lat \in Degrees, lng \in Degrees :
        LET r == IF RoleGate(db, u, CUSTOMER) # 200 THEN Result(db, 403, "role")
                 ELSE IF ~ServiceRequestCreateValid(lat, lng) THEN Result(db, 422, "body")
                 ELSE create_service_request_at(db, u, lat, lng) IN
        /\ Len(r.db.requests) <= CoordMaxRequests
        /\ db' = r.db
        /\ resp' = FieldRespond("create_service_request", u, r, << >>)
        /\ UNCHANGED <<tokens, sessions, sdb, hnd>>

CoordUpdateLocation ==
    \E u \in DOMAIN db.users, lat \in Degrees, lng \in Degrees :
        LET r == IF RoleGate(db, u, PROVIDER) # 200 THEN Result(db, 403, "role")
                 ELSE IF ~LocationUpdateValid(lat, lng) THEN Result(db, 422, "body")
                 ELSE update_location(db, u, lat, lng) IN
        /\ db' = r.db
        /\ resp' = FieldRespond("update_location", u, r, << >>)
        /\ UNCHANGED <<tokens, sessions, sdb, hnd>>

CoordUpdateProviderProfile ==
    \E u \in DOMAIN db.users, body \in CoordBodies :
        LET r == IF RoleGate(db, u, PROVIDER) # 200 THEN Result(db, 403, "role")
                 ELSE IF ~ProviderProfileUpdateValid(body) THEN Result(db, 422, "body")
                 ELSE update_provider_profile(db, u, ProviderProfileUpdate(body)) IN
        /\ db' = r.db
        /\ resp' = FieldRespond("update_provider_profile", u, r,
                                ProviderProfileUpdate(body))
        /\ UNCHANGED <<tokens, sessions, sdb, hnd>>

\* Interleaved handlers.  A worker thread that is idle or has answered its
\* last request takes the next one; every database statement is one step.
ConcCreateServiceRequest ==
    \E u \in DOMAIN db.users :
        LET r == create_service_request(db, u) IN
        /\ r.code = 201 /\ Len(db.requests) < ConcMaxRequests
        /\ db' = r.db
        /\ UNCHANGED <<tokens, sessions, sdb, resp, hnd>>

ConcCreateOffer ==
    \E u \in DOMAIN db.users, rid \in DOMAIN db.requests :
        LET r == create_offer(db, u, rid) IN
        /\ r.code = 201 /\ Len(db.offers) < ConcMaxOffers
        /\ db' = r.db
        /\ UNCHANGED <<tokens, sessions, sdb, resp, hnd>>

\* accept_offer up to its last check: the offer and its request are loaded
\* by one SELECT (joinedload) and checked in memory.
AcceptOfferBegin ==
    \E h \in Handlers, u \in DOMAIN db.users, oid \in 1..(Len(db.offers) + 1) :
        LET chk == AcceptOfferChecks(db, u, oid) IN
        /\ hnd[h].pc \in {"idle", "done"}
        /\ hnd' = [hnd EXCEPT ![h] =
                     IF chk.code # 200
                     THEN [Idle EXCEPT !.pc = "done", !.user = u, !.oid = oid,
                                       !.code = chk.code]
                     ELSE [Idle EXCEPT !.pc = "checked", !.user = u, !.oid = oid,
                                       !.rid = db.offers[oid].service_request_id]]
        /\ UNCHANGED <<tokens, sessions, db, sdb, resp>>

\* accept_offer, the other_offers SELECT
AcceptOfferQuery ==
    \E h \in Handlers :
        /\ hnd[h].pc = "checked"
        /\ hnd' = [hnd EXCEPT ![h].pc = "queried",
                              ![h].others = OtherOffers(db, hnd[h].rid, hnd[h].oid)]
        /\ UNCHANGED <<tokens, sessions, db, sdb, resp>>

\* accept_offer, db.commit(): the pending writes are flushed and committed,
\* or rolled back as a whole
AcceptOfferFlush ==
    \E h \in Handlers :
        LET r == AcceptOfferCommit(db, hnd[h].rid, hnd[h].oid, hnd[h].others) IN
        /\ hnd[h].pc = "queried"
        /\ db' = r.db
        /\ hnd' = [hnd EXCEPT ![h].pc = "done", ![h].others = {}, ![h].code = r.code]
        /\ UNCHANGED <<tokens, sessions, sdb, resp>>

\* The handlers that are inside create_offer.
CreatingOffers == {h \in Handlers : hnd[h].pc \in {"offer_checked", "offer_queried"}}

\* create_offer statement by statement, next to accept_offer.
\* create_offer up to its check of the request: the role dependency, the
\* SELECT of the request and the comparison of its status.
CreateOfferBegin ==
    \E h \in Handlers, u \in DOMAIN db.users, rid \in DOMAIN db.requests :
        LET chk == CreateOfferCheckRequest(db, u, rid) IN
        /\ hnd[h].pc \in {"idle", "done"}
        /\ Len(db.offers) + Cardinality(CreatingOffers) < OfferConcMaxOffers
        /\ hnd' = [hnd EXCEPT ![h] =
                     IF chk.code # 200
                     THEN [Idle EXCEPT !.pc = "done", !.user = u, !.rid = rid,
                                       !.code = chk.code]
                     ELSE [Idle EXCEPT !.pc = "offer_checked", !.user = u,
                                       !.rid = rid]]
        /\ UNCHANGED <<tokens, sessions, db, sdb, resp>>

\* create_offer, the existing_offer SELECT and its check
CreateOfferQuery ==
    \E h \in Handlers :
        /\ hnd[h].pc = "offer_checked"
        /\ hnd' = [hnd EXCEPT ![h] =
                     IF ExistingOffer(db, hnd[h].user, hnd[h].rid)
                     THEN [@ EXCEPT !.pc = "done", !.code = 400]
                     ELSE [@ EXCEPT !.pc = "offer_queried"]]
        /\ UNCHANGED <<tokens, sessions, db, sdb, resp>>

\* create_offer, db.add(offer) and db.commit()
CreateOfferFlush ==
    \E h \in Handlers :
        LET r == CreateOfferCommit(db, hnd[h].user, hnd[h].rid) IN
        /\ hnd[h].pc = "offer_queried"
        /\ db' = r.db
        /\ hnd' = [hnd EXCEPT ![h].pc = "done", ![h].code = r.code,
                              ![h].oid = Len(r.db.offers)]
        /\ UNCHANGED <<tokens, sessions, sdb, resp>>

\* Simple Service, one request handled start to finish.
SimpleCreateServiceRequest ==
    \E u \in DOMAIN sdb.users :
        LET r == simple_create_service_request(sdb, u) IN
        /\ r.code = 201 => Len(sdb.requests) < SimpleMaxRequests
        /\ sdb' = r.db
        /\ resp' = SimpleRespond("create_service_request", u, 0, "", r)
        /\ UNCHANGED <<tokens, sessions, db, hnd>>

AcceptRequest ==
    \E u \in DOMAIN sdb.users, rid \in 1..(Len(sdb.requests) + 1) :
        LET r == accept_request(sdb, u, rid) IN
        /\ sdb' = r.db
        /\ resp' = SimpleRespond("accept_request", u, rid, "", r)
        /\ UNCHANGED <<tokens, sessions, db, hnd>>

UpdateRequestStatus ==
    \E u \in DOMAIN sdb.users, rid \in 1..(Len(sdb.requests) + 1),
       s \in SimpleRequestStatus :
        LET r == update_request_status(sdb, u, rid, s) IN
        /\ sdb' = r.db
        /\ resp' = SimpleRespond("update_request_status", u, rid, s, r)
        /\ UNCHANGED <<tokens, sessions, db, hnd>>

\* Simple Service, the life of a request with every status update recorded.
StatusCreateServiceRequest ==
    \E u \in DOMAIN sdb.users :
        LET r == simple_create_service_request(sdb, u) IN
        /\ r.code = 201 => Len(sdb.requests) < StatusMaxRequests
        /\ sdb' = r.db
        /\ resp' = StatusRespond("create_service_request", u, 0, "", r, sdb)
        /\ UNCHANGED <<tokens, sessions, db, hnd>>

StatusAcceptRequest ==
    \E u \in DOMAIN sdb.users, rid \in 1..(Len(sdb.requests) + 1) :
        LET r == accept_request(sdb, u, rid) IN
        /\ sdb' = r.db
        /\ resp' = StatusRespond("accept_request", u, rid, "", r, sdb)
        /\ UNCHANGED <<tokens, sessions, db, hnd>>

StatusUpdateRequestStatus ==
    \E u \in DOMAIN sdb.users, rid \in 1..(Len(sdb.requests) + 1),
       s \in SimpleRequestStatus :
        LET r == update_request_status(sdb, u, rid, s) IN
        /\ sdb' = r.db
        /\ resp' = StatusRespond("update_request_status", u, rid, s, r, sdb)
        /\ UNCHANGED <<tokens, sessions, db, hnd>>

\* Simple Service, interleaved accept_request handlers.
SimpleDbCreateServiceRequest ==
    \E u \in DOMAIN sdb.users :
        LET r == simple_create_service_request(sdb, u) IN
        /\ r.code = 201 /\ Len(sdb.requests) < SimpleMaxRequests
        /\ sdb' = r.db
        /\ UNCHANGED <<tokens, sessions, db, resp, hnd>>

\* accept_request up to its last check: the row is loaded by one SELECT and
\* checked in memory
AcceptRequestRead ==
    \E h \in Handlers, u \in DOMAIN sdb.users, rid \in 1..(Len(sdb.requests) + 1) :
        LET chk == AcceptRequestChecks(sdb, u, rid) IN
        /\ hnd[h].pc \in {"idle", "done"}
        /\ hnd' = [hnd EXCEPT ![h] =
                     [Idle EXCEPT !.pc = IF chk.code # 200 THEN "done" ELSE "checked",
                                  !.user = u, !.rid = rid,
                                  !.code = IF chk.code # 200 THEN chk.code ELSE 0]]
        /\ UNCHANGED <<tokens, sessions, db, sdb, resp>>

\* accept_request, the assignments and db.commit()
AcceptRequestWrite ==
    \E h \in Handlers :
        LET r == AcceptRequestCommit(sdb, hnd[h].user, hnd[h].rid) IN
        /\ hnd[h].pc = "checked"
        /\ sdb' = r.db
        /\ hnd' = [hnd EXCEPT ![h].pc = "done", ![h].code = r.code]
        /\ UNCHANGED <<tokens, sessions, db, resp>>

\* Simple Service, the requests the list endpoints read: created and
\* updated one call at a time, accepted by interleaved handlers.
ListCreateServiceRequest ==
    \E u \in DOMAIN sdb.users :
        LET r == simple_create_service_request(sdb, u) IN
        /\ r.code = 201 /\ Len(sdb.requests) < ListMaxRequests
        /\ sdb' = r.db
        /\ UNCHANGED <<tokens, sessions, db, resp, hnd>>

ListUpdateRequestStatus ==
    \E u \in DOMAIN sdb.users, rid \in DOMAIN sdb.requests,
       s \in SimpleRequestStatus :
        LET r == update_request_status(sdb, u, rid, s) IN
        /\ r.code = 200
        /\ sdb' = r.db
        /\ UNCHANGED <<tokens, sessions, db, resp, hnd>>

\* Simple Service, update_user_role of two workers statement by statement.
RoleIdle == [pc |-> "idle", user |-> 0, target |-> 0, new_role |-> "", loaded |-> "",
             code |-> 0]

\* The users table with two admins and a customer.
TwoAdminsDb ==
    [SimpleInitDb EXCEPT !.users = << [role |-> ADMIN], [role |-> ADMIN],
                                      [role |-> CUSTOMER] >>]

\* update_user_role up to its last check: get_current_admin loads the
\* caller and compares its role, the handler loads the target row and
\* refuses a self-demotion.
UpdateUserRoleBegin ==
    \E h \in Handlers, u \in DOMAIN sdb.users, user_id \in 1..(Len(sdb.users) + 1),
       new_role \in UserRole :
        LET code == IF SimpleRoleGate(sdb, u, ADMIN) # 200 THEN 403
                    ELSE IF user_id \notin DOMAIN sdb.users THEN 404
                    ELSE IF user_id = u /\ new_role # ADMIN THEN 400
                    ELSE 200 IN
        /\ hnd[h].pc \in {"idle", "done"}
        /\ hnd' = [hnd EXCEPT ![h] =
                     IF code # 200
                     THEN [RoleIdle EXCEPT !.pc = "done", !.user = u,
                                           !.target = user_id, !.code = code]
                     ELSE [RoleIdle EXCEPT !.pc = "checked", !.user = u,
                                           !.target = user_id, !.new_role = new_role,
                                           !.loaded = sdb.users[user_id].role]]
        /\ UNCHANGED <<tokens, sessions, db, sdb, resp>>

\* update_user_role, user.role = new_role and db.commit(): the UPDATE is
\* emitted when the value differs from the one that was loaded
UpdateUserRoleWrite ==
    \E h \in Handlers :
        /\ hnd[h].pc = "checked"
        /\ sdb' = IF hnd[h].new_role = hnd[h].loaded THEN sdb
                  ELSE [sdb EXCEPT !.users[hnd[h].target].role = hnd[h].new_role]
        /\ hnd' = [hnd EXCEPT ![h].pc = "done", ![h].code = 200, ![h].loaded = ""]
        /\ UNCHANGED <<tokens, sessions, db, resp>>

\* Simple Service, the writes the statistics count and the statistics call.
StatsCreateServiceRequest ==
    \E u \in DOMAIN sdb.users :
        LET r == simple_create_service_request(sdb, u) IN
        /\ r.code = 201 /\ Len(sdb.requests) < StatsMaxRequests
        /\ sdb' = r.db
        /\ resp' = StatsRespond("create_service_request", r.code, NoStats)
        /\ UNCHANGED <<tokens, sessions, db, hnd>>

StatsAcceptRequest ==
    \E u \in DOMAIN sdb.users, rid \in DOMAIN sdb.requests :
        LET r == accept_request(sdb, u, rid) IN
        /\ r.code = 200
        /\ sdb' = r.db
        /\ resp' = StatsRespond("accept_request", r.code, NoStats)
        /\ UNCHANGED <<tokens, sessions, db, hnd>>

StatsUpdateRequestStatus ==
    \E u \in DOMAIN sdb.users, rid \in DOMAIN sdb.requests,
       s \in SimpleRequestStatus :
        LET r == update_request_status(sdb, u, rid, s) IN
        /\ r.code = 200
        /\ sdb' = r.db
        /\ resp' = StatsRespond("update_request_status", r.code, NoStats)
        /\ UNCHANGED <<tokens, sessions, db, hnd>>

StatsUpdateUserRole ==
    \E u \in DOMAIN sdb.users, user_id \in StatsTargets, new_role \in UserRole :
        LET r == update_user_role(sdb, u, user_id, new_role) IN
        /\ r.code = 200
        /\ sdb' = r.db
        /\ resp' = StatsRespond("update_user_role", r.code, NoStats)
        /\ UNCHANGED <<tokens, sessions, db, hnd>>

GetStats ==
    \E u \in DOMAIN sdb.users :
        LET r == get_stats(sdb, u) IN
        /\ resp' = StatsRespond("get_stats", r.code, r.stats)
        /\ UNCHANGED <<tokens, sessions, db, sdb, hnd>>

\* Simple Service accounts, one request handled start to finish.
Register ==
    \E email \in Emails, password \in Passwords, role \in UserRole :
        LET r == register(sdb, email, password, role) IN
        /\ r.code = 201 => Len(sdb.users) < AuthMaxUsers
        /\ sdb' = r.db
        /\ resp' = AuthRespond("register", 0, email, role, r)
        /\ UNCHANGED <<tokens, sessions, db, hnd>>

Login ==
    \E email \in Emails, password \in Passwords \cup {AdminPassword} :
        LET r == login(sdb, email, password) IN
        /\ sdb' = r.db
        /\ resp' = AuthRespond("login", 0, email, "", r)
        /\ UNCHANGED <<tokens, sessions, db, hnd>>

SetupAdmin ==
    LET r == setup_admin(sdb) IN
    /\ r.code = 201 => Len(sdb.users) < AuthMaxUsers
    /\ sdb' = r.db
    /\ resp' = AuthRespond("setup_admin", 0, "", "", r)
    /\ UNCHANGED <<tokens, sessions, db, hnd>>

UpdateUserRole ==
    \E u \in DOMAIN sdb.users, user_id \in 1..(Len(sdb.users) + 1),
       new_role \in UserRole :
        LET r == update_user_role(sdb, u, user_id, new_role) IN
        /\ sdb' = r.db
        /\ resp' = AuthRespond("update_user_role", u, user_id, new_role, r)
        /\ UNCHANGED <<tokens, sessions, db, hnd>>

Init ==
    /\ db = InitDb
    /\ sdb = SimpleInitDb
    /\ resp = NoResp
    /\ hnd = [h \in Handlers |-> Idle]
    /\ sessions = << >>
    /\ tokens = {}

\* The request / offer / job lifecycle, one handler at a time, with the
\* response of the last call recorded.
Next ==
    \/ CreateServiceRequest
    \/ CreateOffer
    \/ AcceptOffer

Spec == Init /\ [][Next]_vars

\* Every Marketplace operation that writes requests, offers or jobs, one
\* handler at a time, in a deployment with two customers.
AllOpsInit ==
    /\ db = InitDbTwoCustomers
    /\ sdb = SimpleInitDb
    /\ resp = NoResp
    /\ hnd = [h \in Handlers |-> Idle]
    /\ sessions = << >>
    /\ tokens = {}

AllOpsNext ==
    \/ DbCreateServiceRequest
    \/ DbCreateOffer
    \/ DbAcceptOffer
    \/ DbUpdateJobStatus

AllOpsSpec == AllOpsInit /\ [][AllOpsNext]_vars

\* Two accept_offer handlers interleaving statement by statement.
ConcNext ==
    \/ ConcCreateServiceRequest
    \/ ConcCreateOffer
    \/ AcceptOfferBegin
    \/ AcceptOfferQuery
    \/ AcceptOfferFlush

ConcSpec == Init /\ [][ConcNext]_vars

\* create_offer and accept_offer handlers of two workers interleaving
\* statement by statement.
OfferConcNext ==
    \/ ConcCreateServiceRequest
    \/ CreateOfferBegin
    \/ CreateOfferQuery
    \/ CreateOfferFlush
    \/ AcceptOfferBegin
    \/ AcceptOfferQuery
    \/ AcceptOfferFlush

OfferConcSpec == Init /\ [][OfferConcNext]_vars

\* The Simple Service request lifecycle, one handler at a time, with the
\* response of the last call recorded.
SimpleNext ==
    \/ SimpleCreateServiceRequest
    \/ AcceptRequest
    \/ UpdateRequestStatus

SimpleSpec == Init /\ [][SimpleNext]_vars

\* Two accept_request handlers interleaving statement by statement.
SimpleConcNext ==
    \/ SimpleDbCreateServiceRequest
    \/ AcceptRequestRead
    \/ AcceptRequestWrite

SimpleConcSpec == Init /\ [][SimpleConcNext]_vars

\* The Simple Service request lifecycle with interleaved accept_request
\* handlers.
ListNext ==
    \/ ListCreateServiceRequest
    \/ AcceptRequestRead
    \/ AcceptRequestWrite
    \/ ListUpdateRequestStatus

ListSpec == Init /\ [][ListNext]_vars

\* Role updates of two workers interleaving, from a store with two admins.
RoleConcInit ==
    /\ db = InitDb
    /\ sdb = TwoAdminsDb
    /\ resp = NoResp
    /\ hnd = [h \in Handlers |-> RoleIdle]
    /\ sessions = << >>
    /\ tokens = {}

RoleConcNext == UpdateUserRoleBegin \/ UpdateUserRoleWrite

RoleConcSpec == RoleConcInit /\ [][RoleConcNext]_vars

\* The Simple Service with its statistics read between the writes.
StatsInit ==
    /\ db = InitDb
    /\ sdb = StatsInitDb
    /\ resp = StatsRespond("none", 0, NoStats)
    /\ hnd = [h \in Handlers |-> Idle]
    /\ sessions = << >>
    /\ tokens = {}

StatsNext ==
    \/ StatsCreateServiceRequest
    \/ StatsAcceptRequest
    \/ StatsUpdateRequestStatus
    \/ StatsUpdateUserRole
    \/ GetStats

StatsSpec == StatsInit /\ [][StatsNext]_vars

\* The accounts of a Simple Service deployment, from the empty store that
\* create_tables leaves.
AuthInit ==
    /\ db = InitDb
    /\ sdb = [users |-> << >>, requests |-> << >>]
    /\ resp = NoResp
    /\ hnd = [h \in Handlers |-> Idle]
    /\ sessions = << >>
    /\ tokens = {}

AuthNext ==
    \/ Register
    \/ Login
    \/ SetupAdmin
    \/ UpdateUserRole

AuthSpec == AuthInit /\ [][AuthNext]_vars

\* Both services behind their bearer-token dependencies.
GateInit ==
    /\ db = MarketGateDb
    /\ sdb = SimpleGateDb
    /\ resp = GateRespond("none", "none", NoToken, 0, Result(db, 0, ""))
    /\ hnd = [h \in Handlers |-> Idle]
    /\ sessions = << >>
    /\ tokens = {}

GateNext ==
    \/ GateCreateServiceRequest \/ GateCreateOffer \/ GateAcceptOffer
    \/ GateUpdateJobStatus \/ GateOptional
    \/ SimpleGateCreateServiceRequest \/ SimpleGateAcceptRequest
    \/ SimpleGateUpdateRequestStatus

GateSpec == GateInit /\ [][GateNext]_vars

\* Marketplace sign-in on a store without users.
OtpInit ==
    /\ db = [InitDb EXCEPT !.users = << >>]
    /\ sdb = SimpleInitDb
    /\ resp = [OtpRespond(<< >>, "", NoName, OtpResult(db, 0, "", NoToken, 0))
                  EXCEPT !.op = "none"]
    /\ hnd = [h \in Handlers |-> Idle]
    /\ sessions = << >>
    /\ tokens = {}

OtpNext == VerifyOtp

OtpSpec == OtpInit /\ [][OtpNext]_vars

\* Marketplace sign-in on a seeded store, two requests at a time.
OtpConcInit ==
    /\ db = [InitDb EXCEPT !.users = SeededUsers]
    /\ sdb = SimpleInitDb
    /\ resp = [OtpRespond(<< >>, "", NoName, OtpResult(db, 0, "", NoToken, 0))
                  EXCEPT !.op = "none"]
    /\ hnd = [h \in Handlers |-> OtpIdle]
    /\ sessions = << >>
    /\ tokens = {}

OtpConcNext == VerifyOtpRefuse \/ VerifyOtpLookup \/ VerifyOtpFinish

OtpConcSpec == OtpConcInit /\ [][OtpConcNext]_vars

\* Requests of both services and the sessions get_db hands them.
SessInit ==
    /\ db = InitDb
    /\ sdb = SimpleInitDb
    /\ resp = NoResp
    /\ hnd = [h \in Handlers |-> SessIdle]
    /\ sessions = << >>
    /\ tokens = {}

SessNext == RequestStart \/ HandlerExit \/ GetDbExit

SessSpec == SessInit /\ [][SessNext]_vars

\* The nearby-requests query over the requests customers post, the offers
\* that close them and the locations providers report.
NearbyInit ==
    /\ db = ProfInitDb
    /\ sdb = SimpleInitDb
    /\ resp = ProfRespond("none", 0, Result(db, 0, ""))
    /\ hnd = [h \in Handlers |-> Idle]
    /\ sessions = << >>
    /\ tokens = {}

NearbyAcceptOffer ==
    \E u \in DOMAIN db.users, oid \in DOMAIN db.offers :
        LET r == accept_offer(db, u, oid) IN
        /\ r.code = 200
        /\ db' = r.db
        /\ resp' = ProfRespond("accept_offer", u, r)
        /\ UNCHANGED <<tokens, sessions, sdb, hnd>>

NearbyNext ==
    \/ NearbyCreateServiceRequest \/ NearbyCreateOffer \/ NearbyAcceptOffer
    \/ NearbyUpdateProviderProfile \/ NearbyUpdateLocation
    \/ GetNearbyRequests

NearbySpec == NearbyInit /\ [][NearbyNext]_vars

\* Role-gated requests of both services, a customer-only, a provider-only
\* and an admin-only handler of each; in the Simple Service an admin changes
\* roles while clients hold the tokens they were issued.
RoleInit ==
    /\ db = MarketGateDb
    /\ sdb = RoleInitDb
    /\ resp = GateRespond("none", "none", NoToken, 0, Result(db, 0, ""))
    /\ hnd = [h \in Handlers |-> Idle]
    /\ sessions = << >>
    /\ tokens = {}

RoleNext ==
    \/ GateCreateServiceRequest \/ GateCreateOffer
    \/ GateGetProviderProfile \/ GateUpdateProviderVerification
    \/ IssueToken \/ RoleCreateServiceRequest \/ RoleAcceptRequest
    \/ RoleUpdateUserRole

RoleSpec == RoleInit /\ [][RoleNext]_vars

\* Two customers of each service reading and accepting.
OwnInit ==
    /\ db = InitDbTwoCustomers
    /\ sdb = SimpleOwnDb
    /\ resp = OwnRespond("none", "none", 0, 0, Result(db, 0, ""))
    /\ hnd = [h \in Handlers |-> Idle]
    /\ sessions = << >>
    /\ tokens = {}

OwnNext ==
    \/ OwnCreateServiceRequest \/ OwnCreateOffer \/ OwnAcceptOffer
    \/ GetServiceRequest \/ GetJob
    \/ OwnSimpleCreateServiceRequest \/ GetRequest

OwnSpec == OwnInit /\ [][OwnNext]_vars

\* A provider, a customer and an admin of the Marketplace.
ProfInit ==
    /\ db = ProfInitDb
    /\ sdb = SimpleInitDb
    /\ resp = ProfRespond("none", 0, Result(db, 0, ""))
    /\ hnd = [h \in Handlers |-> Idle]
    /\ sessions = << >>
    /\ tokens = {}

ProfNext ==
    \/ ProfGetProviderProfile \/ ProfUpdateProviderProfile \/ ProfUpdateLocation
    \/ ProfUpdateProviderVerification
    \/ ProfCreateServiceRequest \/ ProfCreateOffer \/ ProfAcceptOffer
    \/ ProfUpdateJobStatus

ProfSpec == ProfInit /\ [][ProfNext]_vars

\* A provider, a customer and an admin; the provider's profile is read,
\* updated and located, and the nearby requests are asked for.
FieldInit ==
    /\ db = ProfInitDb
    /\ sdb = SimpleInitDb
    /\ resp = FieldRespond("none", 0, Result(db, 0, ""), << >>)
    /\ hnd = [h \in Handlers |-> Idle]
    /\ sessions = << >>
    /\ tokens = {}

FieldNext ==
    \/ FieldGetProviderProfile
    \/ FieldUpdateProviderProfile
    \/ FieldUpdateLocation
    \/ FieldGetNearbyRequests

FieldSpec == FieldInit /\ [][FieldNext]_vars

\* A provider, a customer and an admin; requests are posted and the
\* provider's coordinates are written by update-location and update-profile.
CoordNext ==
    \/ CoordCreateServiceRequest
    \/ CoordUpdateLocation
    \/ CoordUpdateProviderProfile

CoordSpec == FieldInit /\ [][CoordNext]_vars

\* Two providers and a customer; profile reads and writes of two workers
\* interleave at the commit.
LazyInit ==
    /\ db = LazyInitDb
    /\ sdb = SimpleInitDb
    /\ resp = ProfRespond("none", 0, Result(db, 0, ""))
    /\ hnd = [h \in Handlers |-> LazyIdle]
    /\ sessions = << >>
    /\ tokens = {}

LazyNext == ProfileLookup \/ ProfileCommit \/ LazyUpdateLocation

LazySpec == LazyInit /\ [][LazyNext]_vars

\* The Simple Service request lifecycle with the previous status recorded.
StatusInit ==
    /\ db = InitDb
    /\ sdb = SimpleInitDb
    /\ resp = StatusRespond("none", 0, 0, "", Result(sdb, 0, ""), sdb)
    /\ hnd = [h \in Handlers |-> Idle]
    /\ sessions = << >>
    /\ tokens = {}

StatusNext ==
    \/ StatusCreateServiceRequest
    \/ StatusAcceptRequest
    \/ StatusUpdateRequestStatus

StatusSpec == StatusInit /\ [][StatusNext]_vars

\* The Marketplace job lifecycle with the previous job status recorded.
JobInit ==
    /\ db = InitDb
    /\ sdb = SimpleInitDb
    /\ resp = JobRespond("none", 0, 0, "", Result(db, 0, ""), db)
    /\ hnd = [h \in Handlers |-> Idle]
    /\ sessions = << >>
    /\ tokens = {}

JobNext ==
    \/ JobCreateServiceRequest
    \/ JobCreateOffer
    \/ JobAcceptOffer
    \/ JobUpdateJobStatus

JobSpec == JobInit /\ [][JobNext]_vars

\* ------------------------------------------------------------------ claims
OffersOf(d, rid) == {i \in DOMAIN d.offers : d.offers[i].service_request_id = rid}

JobsOf(d, rid) == {j \in DOMAIN d.jobs : d.jobs[j].service_request_id = rid}

AcceptedOffersOf(d, rid) == {i \in OffersOf(d, rid) : d.offers[i].status = ACCEPTED}

\* C1: when the owning customer accepts a pending offer O on a request R
\* whose status is pending_offers, the call succeeds and in the resulting
\* state O is accepted, every other offer on R that was pending is rejected,
\* R is offer_selected and exactly one new job (status assigned) links R and
\* O; offers, requests and jobs of other requests are unchanged.
C1_AcceptOfferEffect ==
    [][\A oid \in DOMAIN db.offers :
          LET rid == db.offers[oid].service_request_id
              u == resp'.user IN
          ( /\ resp'.op = "accept_offer"
            /\ resp'.arg = oid
            /\ db.users[u].role = CUSTOMER
            /\ db.requests[rid].customer_id = u
            /\ db.offers[oid].status = PENDING
            /\ db.requests[rid].status = PENDING_OFFERS )
          =>
          ( /\ resp'.code = 200
            /\ DOMAIN db'.offers = DOMAIN db.offers
            /\ DOMAIN db'.requests = DOMAIN db.requests
            /\ db'.offers[oid] = [db.offers[oid] EXCEPT !.status = ACCEPTED]
            /\ \A i \in OffersOf(db, rid) \ {oid} :
                  db'.offers[i] =
                     IF db.offers[i].status = PENDING
                     THEN [db.offers[i] EXCEPT !.status = REJECTED]
                     ELSE db.offers[i]
            /\ db'.requests[rid] = [db.requests[rid] EXCEPT !.status = OFFER_SELECTED]
            /\ Len(db'.jobs) = Len(db.jobs) + 1
            /\ db'.jobs[Len(db'.jobs)] =
                  [service_request_id |-> rid, offer_id |-> oid, status |-> ASSIGNED]
            /\ Cardinality(JobsOf(db', rid)) = 1
            /\ \A i \in DOMAIN db.offers \ OffersOf(db, rid) : db'.offers[i] = db.offers[i]
            /\ \A r \in DOMAIN db.requests \ {rid} : db'.requests[r] = db.requests[r]
            /\ \A j \in DOMAIN db.jobs : db'.jobs[j] = db.jobs[j]
            /\ db'.users = db.users )
      ]_vars

\* An accept has just succeeded on a request that had another pending offer
\* (now rejected) while a pending offer of another request is still pending.
C1_Witness ==
    /\ resp.op = "accept_offer"
    /\ resp.code = 200
    /\ resp.arg \in DOMAIN db.offers
    /\ db.offers[resp.arg].status = ACCEPTED
    /\ \E i \in OffersOf(db, db.offers[resp.arg].service_request_id) :
          db.offers[i].status = REJECTED
    /\ \E i \in DOMAIN db.offers :
          /\ db.offers[i].service_request_id # db.offers[resp.arg].service_request_id
          /\ db.offers[i].status = PENDING

\* C2: in every reachable state a request has a job only if its status is
\* offer_selected, and every offer_selected request has exactly one accepted
\* offer, which is the offer its (single) job references.
C2_JobIffOfferSelected ==
    /\ \A j \in DOMAIN db.jobs :
          db.requests[db.jobs[j].service_request_id].status = OFFER_SELECTED
    /\ \A r \in DOMAIN db.requests :
          db.requests[r].status = OFFER_SELECTED =>
             /\ Cardinality(AcceptedOffersOf(db, r)) = 1
             /\ Cardinality(JobsOf(db, r)) = 1
             /\ \A j \in JobsOf(db, r) : db.jobs[j].offer_id \in AcceptedOffersOf(db, r)

\* An offer_selected request with a rejected offer whose job has already
\* moved on, next to a request that is still collecting offers.
C2_Witness ==
    \E r \in DOMAIN db.requests :
        /\ db.requests[r].status = OFFER_SELECTED
        /\ \E i \in OffersOf(db, r) : db.offers[i].status = REJECTED
        /\ \E j \in JobsOf(db, r) : db.jobs[j].status = "completed"
        /\ \E q \in DOMAIN db.requests : db.requests[q].status = PENDING_OFFERS

\* C3: once an accept-offer has succeeded on R (R has its job), every
\* accept-offer attempt by the owning customer on any offer of R fails with
\* 400 and changes nothing.
C3_SecondAcceptFails ==
    [][\A oid \in DOMAIN db.offers :
          LET rid == db.offers[oid].service_request_id IN
          ( /\ resp'.op = "accept_offer"
            /\ resp'.arg = oid
            /\ resp'.user = db.requests[rid].customer_id
            /\ JobsOf(db, rid) # {} )
          => (resp'.code = 400 /\ db' = db)
      ]_vars

\* The owner has just retried on a rejected offer of a request that already
\* has its job, and was refused.
C3_Witness ==
    /\ resp.op = "accept_offer"
    /\ resp.code = 400
    /\ resp.arg \in DOMAIN db.offers
    /\ db.offers[resp.arg].status = REJECTED
    /\ resp.user = db.requests[db.offers[resp.arg].service_request_id].customer_id
    /\ JobsOf(db, db.offers[resp.arg].service_request_id) # {}

JobsOfOffer(d, oid) == {j \in DOMAIN d.jobs : d.jobs[j].offer_id = oid}

\* C4: in every reachable state, also when two accept-offer handlers
\* interleave between their status checks and their commits, a request has
\* at most one job, an offer has at most one job, and at most one offer of a
\* request is accepted.
C4_AtMostOneJob ==
    /\ \A r \in DOMAIN db.requests :
          /\ Cardinality(JobsOf(db, r)) <= 1
          /\ Cardinality(AcceptedOffersOf(db, r)) <= 1
    /\ \A o \in DOMAIN db.offers : Cardinality(JobsOfOffer(db, o)) <= 1

\* Two handlers for two different offers of one request both passed their
\* checks; one committed and the other was rolled back on the unique
\* constraint.
C4_Witness ==
    \E h \in Handlers, k \in Handlers :
        /\ hnd[h].pc = "done" /\ hnd[h].code = 200
        /\ hnd[k].pc = "done" /\ hnd[k].code = 500
        /\ hnd[h].oid # hnd[k].oid
        /\ hnd[h].rid = hnd[k].rid
        /\ db.offers[hnd[h].oid].status = ACCEPTED
        /\ db.offers[hnd[k].oid].status = REJECTED
        /\ Cardinality(JobsOf(db, hnd[h].rid)) = 1

PendingOffersBy(d, p, rid) ==
    {i \in OffersOf(d, rid) : d.offers[i].provider_id = p /\ d.offers[i].status = PENDING}

\* C5: with handlers executed one at a time, no provider ever holds more
\* than one pending offer on the same request, and a create-offer by a
\* provider who already holds a pending offer on that request fails with 400
\* and creates nothing.
C5_OnePendingOfferPerProvider ==
    /\ [](\A p \in DOMAIN db.users, rid \in DOMAIN db.requests :
             Cardinality(PendingOffersBy(db, p, rid)) <= 1)
    /\ [][\A rid \in DOMAIN db.requests :
             ( /\ resp'.op = "create_offer"
               /\ resp'.arg = rid
               /\ PendingOffersBy(db, resp'.user, rid) # {} )
             => (resp'.code = 400 /\ db' = db)
         ]_vars

\* A provider holding a pending offer on a request that still accepts offers
\* has just been refused a second one.
C5_Witness ==
    /\ resp.op = "create_offer"
    /\ resp.code = 400
    /\ resp.detail = "already_pending_offer"
    /\ PendingOffersBy(db, resp.user, resp.arg) # {}

ClosedOffersBy(d, p, rid) ==
    {i \in OffersOf(d, rid) :
        d.offers[i].provider_id = p /\ d.offers[i].status \in {ACCEPTED, REJECTED}}

\* C6 as stated: a provider's create-offer on a request fails with 400 while
\* an earlier offer of theirs on it is pending, and succeeds once that
\* earlier offer has become rejected or accepted.
C6_ReofferSucceeds ==
    [][\A rid \in DOMAIN db.requests :
          (resp'.op = "create_offer" /\ resp'.arg = rid) =>
             /\ PendingOffersBy(db, resp'.user, rid) # {} => resp'.code = 400
             /\ ( /\ PendingOffersBy(db, resp'.user, rid) = {}
                  /\ ClosedOffersBy(db, resp'.user, rid) # {} ) => resp'.code = 201
      ]_vars

\* C6 amended: a provider's create-offer on a request fails with 400 while
\* an earlier offer of theirs on it is pending; once that offer has become
\* rejected or accepted the request is offer_selected, and (handlers executed
\* one at a time) a new create-offer from the same provider on the same
\* request fails with 400 as well and creates nothing.
C6_ReofferFails ==
    [][\A rid \in DOMAIN db.requests :
          ( /\ resp'.op = "create_offer"
            /\ resp'.arg = rid
            /\ db.users[resp'.user].role = PROVIDER
            /\ \/ PendingOffersBy(db, resp'.user, rid) # {}
               \/ ClosedOffersBy(db, resp'.user, rid) # {} )
          => (resp'.code = 400 /\ db' = db)
      ]_vars

\* A provider whose only offer on a request was rejected has just tried
\* again and was refused because the request no longer accepts offers.
C6_Witness ==
    /\ resp.op = "create_offer"
    /\ resp.code = 400
    /\ resp.detail = "request_not_pending_offers"
    /\ PendingOffersBy(db, resp.user, resp.arg) = {}
    /\ \E i \in ClosedOffersBy(db, resp.user, resp.arg) : db.offers[i].status = REJECTED

\* C7: when a provider accepts a pending request that has no provider, the
\* call succeeds and sets the status to accepted and provider_id to that
\* provider (nothing else changes); an accept by a provider on a request
\* assigned to a different provider fails with 400 and changes nothing.
C7_AcceptAssignsProvider ==
    [][\A rid \in DOMAIN sdb.requests :
          LET u == resp'.user
              req == sdb.requests[rid] IN
          ( /\ resp'.op = "accept_request"
            /\ resp'.arg = rid
            /\ sdb.users[u].role = PROVIDER )
          =>
          /\ (req.status = PENDING /\ req.provider_id = Null) =>
                /\ resp'.code = 200
                /\ sdb' = [sdb EXCEPT !.requests[rid] =
                             [req EXCEPT !.status = ACCEPTED, !.provider_id = u]]
          /\ req.provider_id \notin {Null, u} => (resp'.code = 400 /\ sdb' = sdb)
      ]_vars

\* A provider has just been refused a request that another provider
\* accepted earlier and has since moved on with.
C7_Witness ==
    /\ resp.op = "accept_request"
    /\ resp.code = 400
    /\ resp.arg \in DOMAIN sdb.requests
    /\ sdb.users[resp.user].role = PROVIDER
    /\ sdb.requests[resp.arg].provider_id \notin {Null, resp.user}
    /\ sdb.requests[resp.arg].status = "on_the_way"

Succeeded(h) == hnd[h].pc = "done" /\ hnd[h].code = 200

\* C8: when two providers' accept handlers interleave on the same pending
\* request, at most one of them receives a success response, and the stored
\* provider_id is the provider who received it.
C8_OneAcceptSucceeds ==
    /\ \A h \in Handlers, k \in Handlers :
          (h # k /\ hnd[h].user # hnd[k].user /\ Succeeded(h) /\ Succeeded(k))
             => hnd[h].rid # hnd[k].rid
    /\ \A h \in Handlers :
          Succeeded(h) => sdb.requests[hnd[h].rid].provider_id = hnd[h].user

\* C9 as stated: every step in which a request's status changes to accepted
\* is performed by the provider-accept operation, which assigns the provider
\* in the same step.
C9_AcceptedOnlyByAccept ==
    [][\A rid \in DOMAIN sdb.requests :
          ( /\ sdb.requests[rid].status # ACCEPTED
            /\ sdb'.requests[rid].status = ACCEPTED )
          =>
          ( /\ resp'.op = "accept_request"
            /\ resp'.arg = rid
            /\ sdb'.requests[rid].provider_id = resp'.user )
      ]_vars

\* C9 amended: every step that changes a pending request is a successful
\* provider-accept, which moves it to accepted and assigns the provider in
\* the same step; a request that has left pending is moved back to accepted
\* only by a status-update of its assigned provider, which keeps the provider.
C9_PendingLeftOnlyByAccept ==
    [][\A rid \in DOMAIN sdb.requests :
          LET old == sdb.requests[rid]
              new == sdb'.requests[rid] IN
          /\ (old.status = PENDING /\ new # old) =>
                /\ resp'.op = "accept_request"
                /\ resp'.arg = rid
                /\ resp'.code = 200
                /\ new = [old EXCEPT !.status = ACCEPTED, !.provider_id = resp'.user]
          /\ (old.status \notin {PENDING, ACCEPTED} /\ new.status = ACCEPTED) =>
                /\ resp'.op = "update_request_status"
                /\ resp'.arg = rid
                /\ resp'.status = ACCEPTED
                /\ old.provider_id = resp'.user
                /\ new.provider_id = old.provider_id
      ]_vars

\* A provider has just accepted a pending request and is now its provider,
\* while another request is still pending.
C9_Witness ==
    /\ resp.op = "accept_request"
    /\ resp.code = 200
    /\ sdb.requests[resp.arg].status = ACCEPTED
    /\ sdb.requests[resp.arg].provider_id = resp.user
    /\ \E q \in DOMAIN sdb.requests : sdb.requests[q].status = PENDING

\* C10 as stated: a request that has left pending is never pending again,
\* and a status-update (by a provider, on an existing request) whose target
\* is pending fails with 400 and leaves the request unchanged.
C10_RevertFailsWith400 ==
    [][ /\ \A rid \in DOMAIN sdb.requests :
              sdb.requests[rid].status # PENDING => sdb'.requests[rid].status # PENDING
        /\ ( /\ resp'.op = "update_request_status"
             /\ resp'.status = PENDING
             /\ resp'.arg \in DOMAIN sdb.requests
             /\ sdb.users[resp'.user].role = PROVIDER )
           => (resp'.code = 400 /\ sdb' = sdb)
      ]_vars

\* C10 amended: a request that has left pending is never pending again; a
\* status-update whose target is pending never succeeds and changes nothing:
\* it fails with 400 when the caller is the provider assigned to the request,
\* and with 403 or 404 for every other caller or a missing request.
C10_NeverPendingAgain ==
    [][ /\ \A rid \in DOMAIN sdb.requests :
              sdb.requests[rid].status # PENDING => sdb'.requests[rid].status # PENDING
        /\ (resp'.op = "update_request_status" /\ resp'.status = PENDING) =>
              /\ sdb' = sdb
              /\ resp'.code \in {400, 403, 404}
              /\ resp'.code = 400 <=>
                    /\ resp'.arg \in DOMAIN sdb.requests
                    /\ sdb.users[resp'.user].role = PROVIDER
                    /\ sdb.requests[resp'.arg].provider_id = resp'.user
      ]_vars

\* The assigned provider of a completed request has just been refused a
\* status-update back to pending.
C10_Witness ==
    /\ resp.op = "update_request_status"
    /\ resp.status = PENDING
    /\ resp.code = 400
    /\ sdb.requests[resp.arg].provider_id = resp.user
    /\ sdb.requests[resp.arg].status = "completed"

\* C11: a registration with an address no stored user has succeeds with 201
\* and adds exactly one user, carrying that address; a registration with an
\* address a stored user already has fails with 400 and adds nothing; in
\* every reachable state no two users share an address.
C11_RegisterUniqueEmail ==
    /\ [](\A i \in DOMAIN sdb.users, j \in DOMAIN sdb.users :
             i # j => sdb.users[i].email # sdb.users[j].email)
    /\ [][resp'.op = "register" =>
             IF UsersWithEmail(sdb, resp'.arg) = {}
             THEN /\ resp'.code = 201
                  /\ Len(sdb'.users) = Len(sdb.users) + 1
                  /\ SubSeq(sdb'.users, 1, Len(sdb.users)) = sdb.users
                  /\ UsersWithEmail(sdb', resp'.arg) = {Len(sdb'.users)}
             ELSE resp'.code = 400 /\ sdb' = sdb
         ]_vars

\* A second registration with a registered address, asking for another
\* role, has just been refused.
C11_Witness ==
    /\ resp.op = "register"
    /\ resp.code = 400
    /\ \E i \in UsersWithEmail(sdb, resp.arg) :
          /\ sdb.users[i].role # resp.role
          /\ sdb.users[i].password_hash # hash_password(AdminPassword)

\* What the caller of login sees.
Seen(r) == [code |-> r.code, detail |-> r.detail, headers |-> r.headers,
            token |-> r.token]

\* The store without user i: it differs from d only in that i's address is
\* not registered.
WithoutUser(d, i) ==
    [d EXCEPT !.users = SubSeq(@, 1, i - 1) \o SubSeq(@, i + 1, Len(@))]

\* C12: for every reachable store and the store that differs from it only in
\* that the supplied address is not registered, a login with a wrong
\* password on the first and the same login on the second are answered
\* alike (401, same detail, same headers, no token); a failing login step
\* changes no state.
C12_LoginNonDisclosure ==
    /\ [](\A e \in Emails, p \in Passwords \cup {AdminPassword} :
             \A i \in UsersWithEmail(sdb, e) :
                ~verify_password(p, sdb.users[i].password_hash) =>
                   /\ UsersWithEmail(WithoutUser(sdb, i), e) = {}
                   /\ Seen(login(sdb, e, p)) = Seen(login(WithoutUser(sdb, i), e, p))
                   /\ login(sdb, e, p).code = 401
                   /\ login(sdb, e, p).db = sdb
                   /\ login(WithoutUser(sdb, i), e, p).db = WithoutUser(sdb, i))
    /\ [][(resp'.op = "login" /\ resp'.code # 200) =>
             /\ resp'.code = 401
             /\ resp'.headers = BearerHeaders
             /\ sdb' = sdb
         ]_vars

\* A login with a wrong password for a registered address and a login with
\* an unregistered address are both possible in this state; the former has
\* just been refused.
C12_Witness ==
    /\ resp.op = "login"
    /\ resp.code = 401
    /\ UsersWithEmail(sdb, resp.arg) # {}
    /\ \E e \in Emails : UsersWithEmail(sdb, e) = {}

\* C13: from the empty store, over every sequence of registrations (with any
\* role), logins, role updates and setup calls, a setup call made while no
\* user is an admin succeeds and creates the one admin, a setup call made
\* while some user is an admin fails with 400 and changes nothing, and once
\* an admin exists one always does (so setup succeeds once and never again).
C13_SetupSucceedsOnce ==
    [][ /\ Admins(sdb) # {} => Admins(sdb') # {}
        /\ resp'.op = "setup_admin" =>
              IF Admins(sdb) = {}
              THEN /\ resp'.code = 201
                   /\ Len(sdb'.users) = Len(sdb.users) + 1
                   /\ Admins(sdb') = {Len(sdb'.users)}
              ELSE resp'.code = 400 /\ sdb' = sdb
      ]_vars

\* The part of C13 that holds: setup succeeds only while no user is an
\* admin, fails with 400 once one exists, and an admin, once there, stays.
C13_SetupFailsAfterAdmin ==
    [][ /\ Admins(sdb) # {} => Admins(sdb') # {}
        /\ (resp'.op = "setup_admin" /\ Admins(sdb) # {}) =>
              (resp'.code = 400 /\ sdb' = sdb)
        /\ (resp'.op = "setup_admin" /\ resp'.code = 201) => Admins(sdb) = {}
      ]_vars

\* No admin exists, admin@rsa.com is registered to a non-admin, and the
\* setup call has just ended with a 500.
C13_SetupCrashed ==
    /\ resp.op = "setup_admin"
    /\ resp.code = 500
    /\ Admins(sdb) = {}
    /\ UsersWithEmail(sdb, AdminEmail) # {}

\* C14: a role update by an admin on themselves with target customer or
\* provider fails with 400 and leaves the store (their role admin) unchanged;
\* on any other existing user, with any of the three roles, it succeeds and
\* changes exactly that user's stored role to the requested one; on a
\* missing user it yields 404 and changes nothing.
C14_RoleUpdate ==
    [][(resp'.op = "update_user_role" /\ sdb.users[resp'.user].role = ADMIN) =>
          LET u == resp'.user
              t == resp'.arg
              new_role == resp'.role IN
          /\ (t = u /\ new_role # ADMIN) =>
                (resp'.code = 400 /\ sdb' = sdb /\ sdb'.users[u].role = ADMIN)
          /\ (t \in DOMAIN sdb.users /\ t # u) =>
                /\ resp'.code = 200
                /\ sdb' = [sdb EXCEPT !.users[t].role = new_role]
          /\ t \notin DOMAIN sdb.users => (resp'.code = 404 /\ sdb' = sdb)
      ]_vars

\* An admin has just been refused the removal of their own admin role, in a
\* store where another user's role has been changed to admin by them or by
\* their own registration.
C14_Witness ==
    /\ resp.op = "update_user_role"
    /\ resp.code = 400
    /\ resp.arg = resp.user
    /\ sdb.users[resp.user].role = ADMIN
    /\ \E i \in DOMAIN sdb.users : i # resp.user /\ sdb.users[i].role = ADMIN

\* C15: in both services a request to a protected endpoint whose bearer
\* token is signed with another secret, or whose expiry has passed, is
\* answered 401 whatever user and role the token names, and the handler
\* body does not run: nothing is written.
C15_BadTokenRejected ==
    [][ /\ (/\ resp'.app = "backend"
            /\ resp'.op # "get_current_user_optional"
            /\ (resp'.token.key # JWT_SECRET \/ resp'.token.expired))
           => (resp'.code = 401 /\ db' = db /\ sdb' = sdb)
        /\ (/\ resp'.app = "app"
            /\ (resp'.token.key # JWT_SECRET_KEY \/ resp'.token.expired))
           => (resp'.code = 401 /\ db' = db /\ sdb' = sdb) ]_vars

\* An expired provider token was refused on create_offer while the request
\* it would have offered on was open, and an admin token signed with another
\* key was refused by the Simple Service.
MarketBadTokenRefused ==
    /\ resp.app = "backend" /\ resp.op = "create_offer" /\ resp.code = 401
    /\ resp.token.expired /\ resp.token.key = JWT_SECRET
    /\ resp.token.sub = "2"
    /\ Len(db.requests) = 1 /\ Len(db.offers) = 0

SimpleBadTokenRefused ==
    /\ resp.app = "app" /\ resp.op = "accept_request" /\ resp.code = 401
    /\ ~resp.token.expired /\ resp.token.key = OtherKey
    /\ resp.token.sub = "2"
    /\ Len(sdb.requests) = 1 /\ sdb.requests[1].status = "pending"

C15_Witness == MarketBadTokenRefused \/ SimpleBadTokenRefused

\* The subjects that are the identifier of a stored user.
StoredSubjects(d) == {ToString(i) : i \in DOMAIN d.users}

ValidFor(token, key) == token.key = key /\ ~token.expired

\* C16: identity resolution in both services.  A validly signed, unexpired
\* token whose subject is absent, is not an integer, or names no stored user
\* is answered 401; a user is resolved only when the subject is the
\* identifier of a stored user, and then it is that user.
C16_IdentityResolution ==
    [][ /\ (/\ resp'.app = "backend"
            /\ resp'.op # "get_current_user_optional"
            /\ ValidFor(resp'.token, JWT_SECRET))
           => /\ resp'.token.sub \notin StoredSubjects(db) => resp'.code = 401
              /\ resp'.user # 0 => resp'.token.sub = ToString(resp'.user)
              /\ resp'.user # 0 => resp'.user \in DOMAIN db.users
        /\ (/\ resp'.app = "app"
            /\ ValidFor(resp'.token, JWT_SECRET_KEY))
           => /\ resp'.token.sub \notin StoredSubjects(sdb) => resp'.code = 401
              /\ resp'.user # 0 => resp'.token.sub = ToString(resp'.user)
              /\ resp'.user # 0 => resp'.user \in DOMAIN sdb.users ]_vars

\* The part of C16 the Simple Service keeps: every subject that is not a
\* stored user's identifier is answered 401 with nothing written.
C16_SimpleIdentityResolution ==
    [][ (/\ resp'.app = "app"
         /\ ValidFor(resp'.token, JWT_SECRET_KEY))
        => /\ resp'.token.sub \notin StoredSubjects(sdb)
              => (resp'.code = 401 /\ sdb' = sdb)
           /\ resp'.user # 0 => resp'.token.sub = ToString(resp'.user)
           /\ resp'.user # 0 => resp'.user \in DOMAIN sdb.users ]_vars

\* A Marketplace endpoint answered 500 to a validly signed, unexpired token
\* whose subject is not an integer.
C16_NonIntegerSubjectCrashed ==
    /\ resp.app = "backend" /\ resp.op = "create_service_request"
    /\ ValidFor(resp.token, JWT_SECRET)
    /\ resp.token.sub = "abc"
    /\ resp.code = 500

\* C17: Marketplace optional identity resolution never fails the request:
\* without credentials, with a badly signed or expired token, a token
\* without subject, with a non-integer subject or the subject of a missing
\* user it yields no user; it yields a user only for a valid token whose
\* subject is a stored user's identifier, and then that user.
C17_OptionalNeverFails ==
    [][ resp'.op = "get_current_user_optional"
        => /\ resp'.code = 200
           /\ db' = db
           /\ IF /\ resp'.token # NoToken
                 /\ ValidFor(resp'.token, JWT_SECRET)
                 /\ resp'.token.sub \in StoredSubjects(db)
              THEN resp'.token.sub = ToString(resp'.user)
              ELSE resp'.user = 0 ]_vars

\* The optional resolution failed the request: 500 for a validly signed,
\* unexpired token whose subject is not an integer.
C17_OptionalCrashed ==
    /\ resp.op = "get_current_user_optional"
    /\ ValidFor(resp.token, JWT_SECRET)
    /\ resp.token.sub = "abc"
    /\ resp.code = 500

\* C18: Marketplace verify-otp.  With the demo code and a phone number the
\* input schema accepts and no user has, the call adds exactly one user, a
\* customer with that phone number, and answers 200 with a token that
\* resolves to that user; with any other code it answers 400 for every
\* phone number and adds no user.
C18_VerifyOtp ==
    [][ /\ (/\ resp'.op = "verify_otp"
            /\ resp'.otp = DEMO_OTP
            /\ VerifyOTPInputValid(resp'.phone)
            /\ UsersWithPhone(db, resp'.phone) = {})
           => /\ resp'.code = 200
              /\ Len(db'.users) = Len(db.users) + 1
              /\ SubSeq(db'.users, 1, Len(db.users)) = db.users
              /\ db'.users[Len(db'.users)].role = CUSTOMER
              /\ db'.users[Len(db'.users)].phone = resp'.phone
              /\ get_current_user(db', resp'.token)
                   = Identity(200, "", Len(db'.users))
        /\ (/\ resp'.op = "verify_otp"
            /\ resp'.otp # DEMO_OTP
            /\ VerifyOTPInputValid(resp'.phone))
           => (resp'.code = 400 /\ db' = db) ]_vars

\* The demo code with an accepted, unregistered phone number of fewer than
\* ten characters: the user was stored and the call answered 500 without a
\* token.
C18_ShortPhoneCrashed ==
    /\ resp.op = "verify_otp" /\ resp.otp = DEMO_OTP
    /\ resp.phone = <<"5", "5", "5", "0", "1">>
    /\ resp.code = 500 /\ resp.token = NoToken
    /\ Len(db.users) = 1 /\ db.users[1].phone = resp.phone
    /\ db.users[1].role = CUSTOMER

\* C19: whenever a handler answers with an error, the persisted state after
\* the request equals the persisted state before it.
C19_ErrorLeavesStateUnchanged ==
    [][ resp'.code >= 400 => (db' = db /\ sdb' = sdb) ]_vars

\* verify_otp answered 500 and the store holds a user it did not hold before
\* the request: the second user, added by a call that failed.
C19_ErrorAfterCommit ==
    /\ resp.op = "verify_otp" /\ resp.code = 500
    /\ Len(db.users) = 2
    /\ db.users[2].phone = resp.phone
    /\ UserReadValid(db.users[1])

InFlight(h) == hnd[h].pc \in {"handling", "exiting"}

SessionsOf(h, n) ==
    {s \in DOMAIN sessions : sessions[s].worker = h /\ sessions[s].req = n}

\* C20: every request that has acquired a session holds exactly one, it is
\* the request's own and no other request's, it is open while the request
\* runs, and once the request has finished, by returning, by a business
\* error or by an unexpected exception, it is closed: an open session
\* always belongs to a request still in flight.
C20_SessionLifecycle ==
    /\ \A h \in Handlers :
          hnd[h].pc # "idle" =>
             /\ SessionsOf(h, hnd[h].req) = {hnd[h].session}
             /\ sessions[hnd[h].session].app = hnd[h].app
             /\ sessions[hnd[h].session].open = InFlight(h)
    /\ \A h, k \in Handlers :
          (h # k /\ hnd[h].pc # "idle" /\ hnd[k].pc # "idle")
             => hnd[h].session # hnd[k].session
    /\ \A s \in DOMAIN sessions :
          sessions[s].open =>
             \E h \in Handlers : InFlight(h) /\ hnd[h].session = s

\* One worker has finished its second request, which raised an unexpected
\* exception, while the other worker's request to the other service is
\* still in its handler: of the three sessions created only that one is
\* open.
C20_Witness ==
    \E h, k \in Handlers :
        /\ hnd[h].pc = "finished" /\ hnd[h].req = 2
        /\ hnd[h].exit = "unexpected_exception"
        /\ hnd[k].pc = "handling" /\ hnd[k].app # hnd[h].app
        /\ \A s \in DOMAIN sessions : sessions[s].open <=> s = hnd[k].session
        /\ Len(sessions) = 3

\* The distance of request i from the stored location of provider u.
DistanceTo(u, i) ==
    haversine_distance(db.profiles[First(ProfilesOf(db, u))].current_lat[1],
                       db.profiles[First(ProfilesOf(db, u))].current_lng[1],
                       db.requests[i].lat, db.requests[i].lng)

LocationSet(u) ==
    /\ ProfilesOf(db, u) # {}
    /\ db.profiles[First(ProfilesOf(db, u))].current_lat # None
    /\ db.profiles[First(ProfilesOf(db, u))].current_lng # None

\* C21: nearby-requests answers 400 when the provider has no profile or no
\* stored latitude or longitude; otherwise its result holds exactly the
\* pending_offers requests whose distance to the provider's location is at
\* most the radius, each once, in ascending order of that distance.
C21_NearbyRequests ==
    (resp.op = "get_nearby_requests" /\ db.users[resp.user].role = PROVIDER)
    => IF ~LocationSet(resp.user) THEN resp.code = 400
       ELSE /\ resp.code = 200
            /\ {resp.items[k].id : k \in DOMAIN resp.items}
                 = {i \in DOMAIN db.requests :
                       /\ db.requests[i].status = PENDING_OFFERS
                       /\ DistanceTo(resp.user, i) <= resp.radius}
            /\ \A k, l \in DOMAIN resp.items :
                  k < l => /\ resp.items[k].id # resp.items[l].id
                           /\ DistanceTo(resp.user, resp.items[k].id)
                                <= DistanceTo(resp.user, resp.items[l].id)

\* The same with the order the handler's sort establishes: ascending in the
\* distance rounded to a hundredth of a kilometre, which is the distance_km
\* of the response.
C21_NearbyRequestsRoundedOrder ==
    (resp.op = "get_nearby_requests" /\ db.users[resp.user].role = PROVIDER)
    => IF ~LocationSet(resp.user) THEN resp.code = 400
       ELSE /\ resp.code = 200
            /\ {resp.items[k].id : k \in DOMAIN resp.items}
                 = {i \in DOMAIN db.requests :
                       /\ db.requests[i].status = PENDING_OFFERS
                       /\ DistanceTo(resp.user, i) <= resp.radius}
            /\ \A k, l \in DOMAIN resp.items :
                  k < l => /\ resp.items[k].id # resp.items[l].id
                           /\ round2(DistanceTo(resp.user, resp.items[k].id))
                                <= round2(DistanceTo(resp.user, resp.items[l].id))
            /\ \A k \in DOMAIN resp.items :
                  resp.items[k].distance_km
                     = round2(DistanceTo(resp.user, resp.items[k].id))

\* The query listed a request two metres away before one a metre away:
\* both are 0.0 km in the response.
C21_FartherListedFirst ==
    /\ resp.op = "get_nearby_requests" /\ resp.code = 200
    /\ Len(resp.items) = 2
    /\ LocationSet(resp.user)
    /\ DistanceTo(resp.user, resp.items[1].id) = 2
    /\ DistanceTo(resp.user, resp.items[2].id) = 1
    /\ resp.items[1].distance_km = resp.items[2].distance_km

\* The role a handler requires of its caller.
RequiredRole(op) ==
    CASE op \in {"create_service_request", "accept_offer"} -> CUSTOMER
      [] op \in {"create_offer", "update_job_status", "get_provider_profile",
                 "accept_request"} -> PROVIDER
      [] op \in {"update_provider_verification", "update_user_role"} -> ADMIN

RoleGatedOps ==
    {"create_service_request", "accept_offer", "create_offer", "update_job_status",
     "get_provider_profile", "accept_request", "update_provider_verification",
     "update_user_role"}

\* C22: in both services a request to a role-gated handler whose caller's
\* stored role, at the time of the request, is not the required one is
\* answered 403 and changes nothing; the handler succeeds only for a caller
\* whose stored role is the required one.  The role written in the token
\* plays no part: a Simple Service token issued before the user's role was
\* changed is authorized by the role stored now.
C22_RoleGating ==
    [][ (resp'.op \in RoleGatedOps /\ resp'.user # 0)
        => LET stored == IF resp'.app = "backend" THEN db.users[resp'.user].role
                         ELSE sdb.users[resp'.user].role
           IN /\ stored # RequiredRole(resp'.op)
                   => (resp'.code = 403 /\ db' = db /\ sdb' = sdb)
              /\ resp'.code \in {200, 201} => stored = RequiredRole(resp'.op)
              /\ (db' # db \/ sdb' # sdb) => stored = RequiredRole(resp'.op) ]_vars

\* A user who registered as customer and was made provider accepted a
\* request with the only token issued, which says customer.
C22_Witness ==
    /\ resp.app = "app" /\ resp.op = "accept_request" /\ resp.code = 200
    /\ resp.token.role = CUSTOMER
    /\ tokens = {resp.token, create_token_for_user(2, ADMIN)}
    /\ sdb.users[resp.user].role = PROVIDER
    /\ sdb.requests[1].provider_id = resp.user

\* A token that says customer, held by a user who is provider now, was
\* refused on the customer-only create_service_request.
C22_StaleCustomerRefused ==
    /\ resp.app = "app" /\ resp.op = "create_service_request" /\ resp.code = 403
    /\ resp.token.role = CUSTOMER
    /\ sdb.users[resp.user].role = PROVIDER

\* Whether the resource a customer-only call names exists, and the customer
\* who owns it.
OwnedOps == {"get_service_request", "get_job", "accept_offer", "get_request"}

ResourceExists(app, op, arg) ==
    CASE op = "get_service_request" -> arg \in DOMAIN db.requests
      [] op = "get_job" -> arg \in DOMAIN db.jobs
      [] op = "accept_offer" -> arg \in DOMAIN db.offers
      [] op = "get_request" -> arg \in DOMAIN sdb.requests

OwnerOf(app, op, arg) ==
    CASE op = "get_service_request" -> db.requests[arg].customer_id
      [] op = "get_job" -> db.requests[db.jobs[arg].service_request_id].customer_id
      [] op = "accept_offer" -> db.requests[db.offers[arg].service_request_id].customer_id
      [] op = "get_request" -> sdb.requests[arg].customer_id

CallerIsCustomer(app, u) ==
    IF app = "backend" THEN db.users[u].role = CUSTOMER
    ELSE sdb.users[u].role = CUSTOMER

C24_ProfileFrame ==
    [][ /\ \A i \in DOMAIN db.profiles :
            /\ i \in DOMAIN db'.profiles
            /\ db'.profiles[i].average_rating = db.profiles[i].average_rating
            /\ db'.profiles[i].total_ratings = db.profiles[i].total_ratings
            /\ DOMAIN db'.profiles[i] = DOMAIN db.profiles[i]
            /\ db'.profiles[i].is_verified # db.profiles[i].is_verified
                 => /\ resp'.op = "update_provider_verification"
                    /\ db.users[resp'.user].role = ADMIN
                    /\ db' = [db EXCEPT !.profiles[i].is_verified =
                                            db'.profiles[i].is_verified]
        /\ \A i \in DOMAIN db'.profiles \ DOMAIN db.profiles :
            /\ db'.profiles[i].is_verified = FALSE
            /\ db'.profiles[i].average_rating = NewProfile(0).average_rating
            /\ db'.profiles[i].total_ratings = NewProfile(0).total_ratings
            /\ DOMAIN db'.profiles[i] = DOMAIN NewProfile(0) ]_vars

\* The provider set a location and a city on the profile and the admin
\* verified it; the provider then updated the profile again: 200, and it
\* is still verified.
C24_Witness ==
    /\ resp.op = "update_provider_profile" /\ resp.code = 200
    /\ Len(db.profiles) = 1
    /\ db.profiles[1].is_verified
    /\ db.profiles[1].city = Some("SF")
    /\ db.profiles[1].current_lat = Some(1)

AtMostOneProfile == \A u \in DOMAIN db.users : Cardinality(ProfilesOf(db, u)) <= 1

\* C25: each provider has at most one profile in every reachable state; a
\* get-profile or update-profile that found no profile and answers 200 has
\* created one profile for the caller, one that found a profile has created
\* none, and no such call ever removes a profile; update-location by a
\* provider without a profile answers 404 and changes nothing.
C25_LazyProfile ==
    [][ /\ AtMostOneProfile'
        /\ Len(db'.profiles) >= Len(db.profiles)
        /\ \A h \in Handlers :
             (hnd[h].pc = "looked" /\ hnd'[h].pc = "done") =>
                /\ (hnd[h].found = {} /\ hnd'[h].code = 200) =>
                       /\ Len(db'.profiles) = Len(db.profiles) + 1
                       /\ db'.profiles[Len(db'.profiles)].user_id = hnd[h].user
                /\ (hnd[h].found = {} /\ ProfilesOf(db, hnd[h].user) = {}) =>
                       hnd'[h].code = 200
                /\ hnd[h].found # {} => Len(db'.profiles) = Len(db.profiles)
        /\ (resp' # resp /\ RoleGate(db, resp'.user, PROVIDER) = 200
              /\ ProfilesOf(db, resp'.user) = {}) =>
                 (resp'.code = 404 /\ db' = db) ]_vars

\* Two first get-profile calls of one provider interleaved: both found no
\* profile, the first commit created it, the second was refused by the
\* database, and the provider has one profile.
C25_Witness ==
    /\ hnd[1].pc = "done" /\ hnd[2].pc = "done"
    /\ hnd[1].op = "get_provider_profile" /\ hnd[2].op = "get_provider_profile"
    /\ hnd[1].user = hnd[2].user
    /\ hnd[1].code = 200 /\ hnd[2].code = 500
    /\ Cardinality(ProfilesOf(db, hnd[1].user)) = 1
    /\ Len(db.profiles) = 2

\* C26: a status update sent by a provider answers 404 when the request is
\* missing, else 403 when the caller is not its assigned provider (so for
\* every pending request), else 400 when the target is pending, and in these
\* cases changes nothing; otherwise it answers 200 and changes only the
\* status of that request, leaving customer_id and provider_id as they were.
C26_StatusUpdateChecks ==
    [][ ( /\ resp'.op = "update_request_status"
          /\ sdb.users[resp'.user].role = PROVIDER ) =>
        LET rid == resp'.arg  u == resp'.user IN
        IF rid \notin DOMAIN sdb.requests THEN resp'.code = 404 /\ sdb' = sdb
        ELSE IF sdb.requests[rid].provider_id # u THEN resp'.code = 403 /\ sdb' = sdb
        ELSE IF resp'.status = PENDING THEN resp'.code = 400 /\ sdb' = sdb
        ELSE /\ resp'.code = 200
             /\ sdb' = [sdb EXCEPT !.requests[rid].status = resp'.status]
             /\ sdb'.requests[rid].customer_id = sdb.requests[rid].customer_id
             /\ sdb'.requests[rid].provider_id = sdb.requests[rid].provider_id
      ]_vars

\* A provider asked to set a request that is still pending, and so has no
\* provider, back to pending: the answer is the 403 of the ownership check,
\* not the 400 of the target check.
C26_Witness ==
    /\ resp.op = "update_request_status"
    /\ sdb.users[resp.user].role = PROVIDER
    /\ resp.arg \in DOMAIN sdb.requests
    /\ resp.was = PENDING
    /\ resp.status = PENDING
    /\ resp.code = 403
    /\ sdb.requests[resp.arg].provider_id = Null

RemainingStatuses == SimpleRequestStatus \ {PENDING}

\* C27: a status update by the assigned provider of a request succeeds for
\* every target among accepted, on_the_way, in_progress, completed and
\* cancelled, whichever of these the request currently has, and sets the
\* status to the target.
C27_NoOrdering ==
    [][ ( /\ resp'.op = "update_request_status"
          /\ sdb.users[resp'.user].role = PROVIDER
          /\ resp'.arg \in DOMAIN sdb.requests
          /\ sdb.requests[resp'.arg].provider_id = resp'.user
          /\ resp'.status \in RemainingStatuses ) =>
        /\ sdb.requests[resp'.arg].status \in RemainingStatuses
        /\ resp'.code = 200
        /\ sdb'.requests[resp'.arg].status = resp'.status
      ]_vars

\* The assigned provider moved a completed request back to accepted.
C27_Witness ==
    /\ resp.op = "update_request_status"
    /\ resp.code = 200
    /\ resp.was = "completed"
    /\ resp.status = ACCEPTED
    /\ sdb.requests[resp.arg].status = ACCEPTED
    /\ sdb.requests[resp.arg].provider_id = resp.user

\* C28: a job status update sent by a provider answers 404 when the job is
\* missing, else 403 when the job's offer is not the caller's, else 400 when
\* the string is not a job status, and then changes nothing; otherwise it
\* answers 200 and sets the job's status to the string, whatever status the
\* job had, leaving the job's request and offer links and every request and
\* offer as they were.
C28_JobStatusUpdateChecks ==
    [][ ( /\ resp'.op = "update_job_status"
          /\ db.users[resp'.user].role = PROVIDER ) =>
        LET jid == resp'.arg  u == resp'.user IN
        IF jid \notin DOMAIN db.jobs THEN resp'.code = 404 /\ db' = db
        ELSE IF db.offers[db.jobs[jid].offer_id].provider_id # u
             THEN resp'.code = 403 /\ db' = db
        ELSE IF resp'.status \notin JobStatus THEN resp'.code = 400 /\ db' = db
        ELSE /\ resp'.code = 200
             /\ db'.jobs[jid].status = resp'.status
             /\ db'.jobs[jid].service_request_id = db.jobs[jid].service_request_id
             /\ db'.jobs[jid].offer_id = db.jobs[jid].offer_id
             /\ db'.requests = db.requests
             /\ db'.offers = db.offers
             /\ db' = [db EXCEPT !.jobs[jid].status = resp'.status]
      ]_vars

\* The provider of the accepted offer moved a completed job back to
\* assigned; the request is still offer_selected and the offer accepted.
C28_Witness ==
    /\ resp.op = "update_job_status"
    /\ resp.code = 200
    /\ resp.was = "completed"
    /\ resp.status = ASSIGNED
    /\ db.jobs[resp.arg].status = ASSIGNED
    /\ db.offers[db.jobs[resp.arg].offer_id].provider_id = resp.user
    /\ db.offers[db.jobs[resp.arg].offer_id].status = ACCEPTED
    /\ db.requests[db.jobs[resp.arg].service_request_id].status = OFFER_SELECTED

PendingOffersOf(rid) ==
    {i \in DOMAIN db.offers : /\ db.offers[i].service_request_id = rid
                              /\ db.offers[i].status = PENDING}

\* C29: in every reachable state, also when a create_offer and an
\* accept_offer on the same request interleave, a request whose status is
\* offer_selected has no pending offer.
C29_NoPendingOfferOnSelected ==
    \A rid \in DOMAIN db.requests :
        db.requests[rid].status = OFFER_SELECTED => PendingOffersOf(rid) = {}

\* A create_offer answered 201 and its offer is pending, while the request
\* it was made on is offer_selected and another offer of it is accepted.
C29_PendingOfferOnSelected ==
    \E h \in Handlers :
        /\ hnd[h].pc = "done" /\ hnd[h].code = 201
        /\ db.offers[hnd[h].oid].status = PENDING
        /\ db.requests[hnd[h].rid].status = OFFER_SELECTED
        /\ \E i \in DOMAIN db.offers :
              /\ db.offers[i].service_request_id = hnd[h].rid
              /\ db.offers[i].status = ACCEPTED

\* C30: in every reachable state, also when two create_offer calls of one
\* provider for one request interleave, a provider has at most one pending
\* offer on a request.
C30_OnePendingOfferPerProvider ==
    \A rid \in DOMAIN db.requests, u \in DOMAIN db.users :
        Cardinality({i \in PendingOffersOf(rid) : db.offers[i].provider_id = u}) <= 1

\* Two create_offer calls of one provider for one request both answered
\* 201, and both offers are pending.
C30_TwoPendingOffers ==
    /\ hnd[1].pc = "done" /\ hnd[2].pc = "done"
    /\ hnd[1].code = 201 /\ hnd[2].code = 201
    /\ hnd[1].user = hnd[2].user /\ hnd[1].rid = hnd[2].rid
    /\ hnd[1].oid # hnd[2].oid
    /\ db.offers[hnd[1].oid].status = PENDING
    /\ db.offers[hnd[2].oid].status = PENDING

\* The profile a successful update of provider u started from: the stored
\* one, or the new row when there was none.
ProfileBefore(u) ==
    IF ProfilesOf(db, u) = {} THEN NewProfile(u)
    ELSE db.profiles[First(ProfilesOf(db, u))]

\* A successful update has stored, for every field of the profile, the value
\* sent for it, and has kept the value of every field that was not sent (a
\* null is_online on the creating update is stored as the column default).
SuppliedFieldsOnly ==
    (resp'.op = "update_provider_profile" /\ resp'.code = 200) =>
        LET u == resp'.user
            new == db'.profiles[First(ProfilesOf(db', u))] IN
        /\ Cardinality(ProfilesOf(db', u)) = 1
        /\ \A f \in DOMAIN new :
             IF f \in DOMAIN resp'.body
             THEN new[f] = resp'.body[f]
                  \/ (f = "is_online" /\ resp'.body[f] = None /\ new[f] = Some(FALSE))
             ELSE new[f] = ProfileBefore(u)[f]

Located(profile) == profile.current_lat # None /\ profile.current_lng # None

\* C31 as stated: a successful update-profile changes exactly the fields
\* sent, and coordinates that are set stay set under every step except an
\* update-location (so nearby-requests never answers 400 for them).
C31_CoordinatesStaySet ==
    [][ /\ SuppliedFieldsOnly
        /\ \A i \in DOMAIN db.profiles :
             Located(db.profiles[i]) =>
                /\ Located(db'.profiles[i])
                /\ ( \/ db'.profiles[i].current_lat # db.profiles[i].current_lat
                     \/ db'.profiles[i].current_lng # db.profiles[i].current_lng )
                   => (resp'.op = "update_location" /\ resp'.code = 200)
      ]_vars

\* C31 amended: a successful update-profile changes exactly the fields
\* sent; a stored coordinate changes only in a successful update-location
\* or in a successful update-profile whose body names that coordinate, to
\* the value sent, null included; and nearby-requests answers 400 to a
\* provider exactly when the profile is missing or a coordinate is null.
C31_CoordinatesChangeOnlyWhenSent ==
    [][ /\ SuppliedFieldsOnly
        /\ \A i \in DOMAIN db.profiles :
             \A f \in {"current_lat", "current_lng"} :
                db'.profiles[i][f] # db.profiles[i][f] =>
                   /\ resp'.code = 200
                   /\ resp'.user = db.profiles[i].user_id
                   /\ \/ resp'.op = "update_location"
                      \/ /\ resp'.op = "update_provider_profile"
                         /\ f \in DOMAIN resp'.body
                         /\ db'.profiles[i][f] = resp'.body[f]
        /\ ( /\ resp'.op = "get_nearby_requests"
             /\ db.users[resp'.user].role = PROVIDER ) =>
              ( resp'.code = 400 <=>
                  \/ ProfilesOf(db, resp'.user) = {}
                  \/ ~Located(db.profiles[First(ProfilesOf(db, resp'.user))]) )
      ]_vars

\* The provider's longitude is the one update-location stored, the latitude
\* is null again after an update-profile that sent current_lat: null, and
\* nearby-requests has just answered 400.
C31_Witness ==
    /\ resp.op = "get_nearby_requests" /\ resp.code = 400
    /\ ProfilesOf(db, resp.user) # {}
    /\ db.profiles[First(ProfilesOf(db, resp.user))].current_lng = Some(TheMeridian)
    /\ db.profiles[First(ProfilesOf(db, resp.user))].current_lat = None

PendingRequests(d) == {rid \in DOMAIN d.requests : d.requests[rid].status = PENDING}

SimpleProviders == {u \in DOMAIN sdb.users : sdb.users[u].role = PROVIDER}

\* C32: after every step a request is pending exactly when it has no
\* provider, and the open-requests list of every provider is the set of
\* pending requests; a request leaves that list only in the commit of an
\* accept that answers 200, and is then in the accepting provider's my-jobs
\* list; a request that is not in the list is not in it after the step.
C32_OpenRequestsArePending ==
    [][ /\ \A rid \in DOMAIN sdb'.requests :
              sdb'.requests[rid].status = PENDING <=> sdb'.requests[rid].provider_id = Null
        /\ \A u \in SimpleProviders :
              get_open_requests(sdb', u) = Rows(200, PendingRequests(sdb'))
        /\ \A rid \in DOMAIN sdb.requests :
              IF rid \in PendingRequests(sdb)
              THEN rid \notin PendingRequests(sdb') =>
                     \E h \in Handlers :
                        /\ hnd[h].pc = "checked" /\ hnd[h].rid = rid
                        /\ hnd'[h].pc = "done" /\ hnd'[h].code = 200
                        /\ rid \in get_my_jobs(sdb', hnd[h].user).rows
              ELSE rid \notin PendingRequests(sdb')
      ]_vars

\* A request a provider accepted has been completed: it is no longer in the
\* open list and it is in that provider's my-jobs list.
C32_Witness ==
    \E h \in Handlers :
        /\ hnd[h].pc = "done" /\ hnd[h].code = 200
        /\ hnd[h].rid \in DOMAIN sdb.requests
        /\ sdb.requests[hnd[h].rid].status = "completed"
        /\ hnd[h].rid \notin get_open_requests(sdb, hnd[h].user).rows
        /\ hnd[h].rid \in get_my_jobs(sdb, hnd[h].user).rows

\* C33: a step taken while an admin exists leaves at least one admin, also
\* when role updates of two admins interleave.
C33_AdminPersists ==
    [][ Admins(sdb) # {} => Admins(sdb') # {} ]_vars

\* Two admins each demoted the other: both calls answered 200 and no user
\* is an admin.
C33_NoAdminLeft ==
    /\ hnd[1].pc = "done" /\ hnd[2].pc = "done"
    /\ hnd[1].code = 200 /\ hnd[2].code = 200
    /\ hnd[1].target = hnd[2].user /\ hnd[2].target = hnd[1].user
    /\ hnd[1].user # hnd[2].user
    /\ Admins(sdb) = {}

\* C34: a request is created pending_offers; a step changes the status of
\* a request only from pending_offers to offer_selected and only when it is
\* an accept-offer answered 200, so an offer_selected request keeps its
\* status; no request is ever cancelled or expired.
C34_RequestStatusTransitions ==
    [][ /\ \A rid \in DOMAIN db.requests :
              db'.requests[rid].status # db.requests[rid].status =>
                 /\ db.requests[rid].status = PENDING_OFFERS
                 /\ db'.requests[rid].status = OFFER_SELECTED
                 /\ resp'.op = "accept_offer" /\ resp'.code = 200
        /\ \A rid \in DOMAIN db'.requests \ DOMAIN db.requests :
              /\ db'.requests[rid].status = PENDING_OFFERS
              /\ resp'.op = "create_service_request"
        /\ \A rid \in DOMAIN db'.requests :
              db'.requests[rid].status \in {PENDING_OFFERS, OFFER_SELECTED}
      ]_vars

\* The provider has cancelled the job of a request; the request is still
\* offer_selected.
C34_Witness ==
    /\ resp.op = "update_job_status" /\ resp.code = 200
    /\ resp.status = "cancelled"
    /\ db.jobs[resp.arg].status = "cancelled"
    /\ db.requests[db.jobs[resp.arg].service_request_id].status = OFFER_SELECTED

\* C35: after every step the offer of each job is accepted and is an offer
\* of the job's request; a step leaves the status of an accepted or
\* rejected offer, and the request and the provider of every offer, as they
\* were.
C35_OffersSettle ==
    [][ /\ \A j \in DOMAIN db'.jobs :
              /\ db'.offers[db'.jobs[j].offer_id].status = ACCEPTED
              /\ db'.offers[db'.jobs[j].offer_id].service_request_id =
                    db'.jobs[j].service_request_id
        /\ \A oid \in DOMAIN db.offers :
              /\ db.offers[oid].status \in {ACCEPTED, REJECTED} =>
                    db'.offers[oid].status = db.offers[oid].status
              /\ db'.offers[oid].service_request_id = db.offers[oid].service_request_id
              /\ db'.offers[oid].provider_id = db.offers[oid].provider_id
      ]_vars

\* A request with an accepted and a rejected offer whose job has been
\* completed, next to a request that still has a pending offer.
C35_Witness ==
    \E j \in DOMAIN db.jobs :
        /\ db.jobs[j].status = "completed"
        /\ db.offers[db.jobs[j].offer_id].status = ACCEPTED
        /\ \E o \in DOMAIN db.offers :
              /\ db.offers[o].service_request_id = db.jobs[j].service_request_id
              /\ db.offers[o].status = REJECTED
        /\ \E o \in DOMAIN db.offers : db.offers[o].status = PENDING

\* C36: the statistics an admin was just given report a request total that
\* is the number of stored requests and the sum of the pending, active,
\* completed and cancelled counts, and a user total that is the number of
\* stored users and the sum of the customer, provider and admin counts.
C36_StatsTotals ==
    (resp.op = "get_stats" /\ resp.code = 200) =>
        /\ resp.stats.requests.total = Len(sdb.requests)
        /\ resp.stats.requests.total =
              resp.stats.requests.pending + resp.stats.requests.active
                + resp.stats.requests.completed + resp.stats.requests.cancelled
        /\ resp.stats.users.total = Len(sdb.users)
        /\ resp.stats.users.total =
              resp.stats.users.customers + resp.stats.users.providers
                + resp.stats.users.admins

\* Statistics read with one request in progress and one cancelled, after
\* the customer has been made a provider.
C36_Witness ==
    /\ resp.op = "get_stats" /\ resp.code = 200
    /\ resp.stats.requests.active = 1
    /\ resp.stats.requests.cancelled = 1
    /\ resp.stats.requests.total = 2
    /\ resp.stats.users.providers = 2
    /\ \E i \in DOMAIN sdb.requests : sdb.requests[i].status = "in_progress"

DistinctPhones(d) ==
    \A i, j \in DOMAIN d.users : d.users[i].phone = d.users[j].phone => i = j

C38_CoordinatesInRange ==
    /\ \A i \in DOMAIN db.requests :
          LatitudeField(db.requests[i].lat) /\ LongitudeField(db.requests[i].lng)
    /\ \A p \in DOMAIN db.profiles :
          /\ db.profiles[p].current_lat # None
                => LatitudeField(db.profiles[p].current_lat[1])
          /\ db.profiles[p].current_lng # None
                => LongitudeField(db.profiles[p].current_lng[1])

\* An update-profile call with latitude 91 and longitude -181 was answered
\* 200 and the provider's profile holds both values.
C38_OutOfRangeStored ==
    /\ resp.op = "update_provider_profile" /\ resp.code = 200
    /\ resp.body = [current_lat |-> Some(91), current_lng |-> Some(-181)]
    /\ \E p \in DOMAIN db.profiles :
          /\ db.profiles[p].user_id = resp.user
          /\ db.profiles[p].current_lat = Some(91)
          /\ db.profiles[p].current_lng = Some(-181)

TypeOK ==
    /\ \A i \in DOMAIN sdb.requests : sdb.requests[i].status \in SimpleRequestStatus
    /\ \A i \in DOMAIN db.requests : db.requests[i].status \in RequestStatus
    /\ \A i \in DOMAIN db.offers : db.offers[i].status \in OfferStatus
    /\ \A i \in DOMAIN db.jobs : db.jobs[i].status \in JobStatus
====
